---- MODULE Spec2Model ----
(***************************************************************************)
(* Grade-statistics engine of gopher-mcp-tools.                            *)
(*                                                                         *)
(* Two functions named calculate_grades_stats exist: the one of            *)
(* src/server/utils.py and the one the MCP tools call, in                  *)
(* src/mcp-server/gopher_grades_server.py.  Both are modelled as operators *)
(* over a Python value; a caller picks one of them, calls it on an input,  *)
(* then may add students to one label and call it again.                   *)
(*                                                                         *)
(* Numbers.  Grade points are kept in thousandths (4.333 is 4333) and      *)
(* percentages in tenths (100.0 is 1000), which are the precisions of      *)
(* round(x, 3) and round(x, 1).  The quotients are exact rationals n/d.    *)
(* Python computes them in binary floating point: away from a rounding tie *)
(* the float error (about 1e-16 relative) cannot change the rounded result *)
(* for the counts modelled here; AT a tie (n/d exactly halfway between two *)
(* representable results) round() is half-to-even when the float           *)
(* computation is exact, and lands on the side of the float error when it  *)
(* is not.  That side is computed by carrying out the float operations of  *)
(* the code, in the iteration order of the dict (the set `down` holds the  *)
(* fields whose tie lands on the lower side).                              *)
(***************************************************************************)
EXTENDS Integers, Sequences, FiniteSets, TLC

VARIABLES
    grades,     \* the value passed to calculate_grades_stats
    result,     \* what the last call returned (or that it raised)
    callee,     \* which calculate_grades_stats the caller uses
    pc,         \* "start" | "called" | "increased"
    prev,       \* input and result of the call before the last increase
    added,      \* label and count of the last increase
    history,    \* the calls of a caller that calls repeatedly, in order
    db,         \* the rows of the database that the tools read
    tool,       \* the MCP tool that was called, with its arguments
    frame,      \* where the tool's handler is, and its local variables
    queries,    \* the queries the handler has issued, in order
    ret,        \* what the handler returned (or that it raised)
    context,    \* the DbContext: last_query, last_result, query_history
    calls,      \* where each task is in Database.query
    lifespan    \* where db_lifespan is, and what it has done

callerVars == <<grades, result, callee, pc, prev, added>>
toolVars == <<db, tool, frame, queries, ret>>
serverVars == <<context, calls, lifespan>>
vars == <<callerVars, history, toolVars, serverVars>>

---------------------------------------------------------------------------
(* Bounds of the inputs *)

MaxCount == 3          \* largest count of one label in an input
MaxKeys == 2           \* largest number of labels in an input
MaxAdd == 2            \* largest number of students added in one step

\* Labels the inputs are drawn from: both ends and the middle of the GPA
\* table, every non-A-F label of the vocabulary and one unrecognized ("I").
InputLabels == {"A+", "A", "B-", "D", "F", "W", "S", "N", "P", "I"}

---------------------------------------------------------------------------
(* Python values *)

None == <<>>
Some(x) == <<x>>
IsNone(v) == v = None
Val(v) == v[1]

EmptyDict == [g \in {} |-> 0]

\* A Python value: its type and its content.  Of a non-mapping only the
\* emptiness of the content is observable here (truthiness).
PyValue(t, m) == [type |-> t, items |-> m]
PyNone == PyValue("NoneType", EmptyDict)
IsDict(v) == v.type = "dict"
Truthy(v) == v.type # "NoneType" /\ DOMAIN v.items # {}

Get(m, g) == IF g \in DOMAIN m THEN m[g] ELSE 0

RECURSIVE SumOver(_, _)
SumOver(m, S) ==
    IF S = {} THEN 0
    ELSE LET g == CHOOSE x \in S : TRUE IN m[g] + SumOver(m, S \ {g})

\* sum(grades.values())
SumValues(m) == SumOver(m, DOMAIN m)

RECURSIVE SumGet(_, _)
\* sum(grades.get(g, 0) for g in lst)
SumGet(m, lst) ==
    IF lst = <<>> THEN 0 ELSE Get(m, Head(lst)) + SumGet(m, Tail(lst))

---------------------------------------------------------------------------
(* Rounding *)

GpaScale == 1000       \* round(x, 3): thousandths
RateScale == 10        \* round(x, 1): tenths
Percent == 100

RECURSIVE Gcd(_, _)
Gcd(a, b) == IF b = 0 THEN a ELSE Gcd(b, a % b)

RECURSIVE IsPow2(_)
IsPow2(x) == x = 1 \/ (x > 1 /\ x % 2 = 0 /\ IsPow2(x \div 2))

\* n/d has a finite binary expansion: a double holds it exactly
Dyadic(n, d) == IsPow2(d \div Gcd(n, d))

IsTie(n, d) == 2 * (n % d) = d

\* round() of the rational n/d (d > 0) to an integer.  exact: the float that
\* round() receives is n/d itself; up: where an inexact tie lands.
PyRound(n, d, exact, up) ==
    LET q == n \div d
        r == n % d
    IN  IF 2 * r < d THEN q
        ELSE IF 2 * r > d THEN q + 1
        ELSE IF exact THEN (IF q % 2 = 0 THEN q ELSE q + 1)
        ELSE IF up THEN q + 1 ELSE q

---------------------------------------------------------------------------
(* Binary floating point.  A float is m * 2^e, m a natural number written  *)
(* in base 2^LimbBits, least significant limb first (<<>> is 0).  An       *)
(* IEEE-754 double keeps the 53 most significant bits of m, rounding half  *)
(* to even; Python's float operations and round() are correctly rounded.   *)

MantissaBits == 53
LimbBits == 13
Base == 2 ^ LimbBits

RECURSIVE LimbsOf(_)
LimbsOf(n) == IF n = 0 THEN <<>> ELSE <<n % Base>> \o LimbsOf(n \div Base)

RECURSIVE NatOf(_)
NatOf(b) == IF b = <<>> THEN 0 ELSE Head(b) + Base * NatOf(Tail(b))

RECURSIVE Trim(_)
Trim(b) ==
    IF b = <<>> THEN <<>>
    ELSE IF b[Len(b)] = 0 THEN Trim(SubSeq(b, 1, Len(b) - 1)) ELSE b

RECURSIVE Zeros(_)
Zeros(k) == IF k <= 0 THEN <<>> ELSE <<0>> \o Zeros(k - 1)

RECURSIVE BitLength(_)
BitLength(n) == IF n = 0 THEN 0 ELSE 1 + BitLength(n \div 2)

\* the number of bits of the natural number b
Bits(b) ==
    LET t == Trim(b)
    IN  IF t = <<>> THEN 0
        ELSE LimbBits * (Len(t) - 1) + BitLength(t[Len(t)])

\* b * c + carry, c a small natural number
RECURSIVE MulCarry(_, _, _)
MulCarry(b, c, carry) ==
    IF b = <<>> THEN LimbsOf(carry)
    ELSE <<(Head(b) * c + carry) % Base>>
         \o MulCarry(Tail(b), c, (Head(b) * c + carry) \div Base)

\* a + b + carry
RECURSIVE AddCarry(_, _, _)
AddCarry(a, b, carry) ==
    IF a = <<>> /\ b = <<>> THEN LimbsOf(carry)
    ELSE LET x == IF a = <<>> THEN 0 ELSE Head(a)
             y == IF b = <<>> THEN 0 ELSE Head(b)
         IN  <<(x + y + carry) % Base>>
             \o AddCarry(IF a = <<>> THEN a ELSE Tail(a),
                         IF b = <<>> THEN b ELSE Tail(b),
                         (x + y + carry) \div Base)

\* long division of b by the small natural number d, from limb i down:
\* r the remainder and q the quotient limbs so far
RECURSIVE DivFrom(_, _, _, _, _)
DivFrom(b, i, d, r, q) ==
    IF i = 0 THEN [q |-> q, r |-> r]
    ELSE DivFrom(b, i - 1, d, (r * Base + b[i]) % d,
                 <<(r * Base + b[i]) \div d>> \o q)

DivRem(b, d) == DivFrom(b, Len(b), d, 0, <<>>)

\* b * 2^k
ShiftLeft(b, k) ==
    Zeros(k \div LimbBits) \o MulCarry(b, 2 ^ (k % LimbBits), 0)

\* b \div 2^k, and whether a nonzero bit was dropped
ShiftRight(b, k) ==
    LET a    == k \div LimbBits
        low  == SubSeq(b, 1, IF a < Len(b) THEN a ELSE Len(b))
        high == SubSeq(b, a + 1, Len(b))
        qr   == DivRem(high, 2 ^ (k % LimbBits))
    IN  [q |-> qr.q,
         sticky |-> qr.r # 0 \/ \E i \in DOMAIN low : low[i] # 0]

IsOdd(b) == b # <<>> /\ b[1] % 2 = 1

\* the natural number nearest to b / 2^k (k >= 1), half to even
RoundShift(b, k) ==
    LET s    == ShiftRight(b, k - 1)
        kept == DivRem(s.q, 2).q
    IN  IF IsOdd(s.q) /\ (s.sticky \/ IsOdd(kept))
        THEN AddCarry(kept, <<>>, 1) ELSE kept

ToDouble(f) ==
    LET k == Bits(f.m) - MantissaBits
    IN  IF k <= 0 THEN [m |-> Trim(f.m), e |-> f.e]
        ELSE [m |-> Trim(RoundShift(f.m, k)), e |-> f.e + k]

FloatOfInt(n) == [m |-> LimbsOf(n), e |-> 0]

\* float * int
FloatMul(f, c) == ToDouble([m |-> MulCarry(f.m, c, 0), e |-> f.e])

\* float + float
FloatAdd(f, g) ==
    LET e == IF f.e < g.e THEN f.e ELSE g.e
    IN  ToDouble([m |-> AddCarry(ShiftLeft(f.m, f.e - e),
                                 ShiftLeft(g.m, g.e - e), 0),
                  e |-> e])

\* float / int and int / int (d > 0): the quotient to MantissaBits + 2
\* bits or more, with a lowest bit that is set if a remainder is left
FloatDiv(f, d) ==
    LET k  == MantissaBits + 2 + BitLength(d)
        qr == DivRem(ShiftLeft(f.m, k), d)
    IN  ToDouble([m |-> AddCarry(MulCarry(qr.q, 2, 0), <<>>,
                                 IF qr.r = 0 THEN 0 ELSE 1),
                  e |-> f.e - k - 1])

\* round(f, ndigits) in units of 10^-ndigits, scale = 10^ndigits
FloatRound(f, scale) ==
    LET b == MulCarry(f.m, scale, 0)
    IN  IF f.e >= 0 THEN NatOf(ShiftLeft(b, f.e))
        ELSE NatOf(RoundShift(b, 0 - f.e))

\* total_points after the loop over the labels in iteration order, table
\* the grade points in thousandths (the literal 4.333 is 4333 / 1000)
RECURSIVE FloatPoints(_, _, _, _)
FloatPoints(acc, m, order, table) ==
    IF order = <<>> THEN acc
    ELSE LET g == Head(order) IN
         IF g \notin DOMAIN table
         THEN FloatPoints(acc, m, Tail(order), table)
         ELSE FloatPoints(
                 FloatAdd(acc, FloatMul(FloatDiv(FloatOfInt(table[g]),
                                                 GpaScale), m[g])),
                 m, Tail(order), table)

\* round(total_points / total_af_students, 3), in thousandths
FloatGpa(m, order, table) ==
    FloatRound(FloatDiv(FloatPoints(FloatOfInt(0), m, order, table),
                        SumOver(m, DOMAIN m \cap DOMAIN table)),
               GpaScale)

\* round((num / den) * 100, 1), in tenths
FloatRate(num, den) ==
    FloatRound(FloatMul(FloatDiv(FloatOfInt(num), den), Percent), RateScale)

---------------------------------------------------------------------------
(* calculate_grades_stats of src/server/utils.py *)

\* mutants of gpa_map: "A": 3.0 and "A+": 4.0
gpa_map_LowA ==
    ("A+" :> 4333 @@ "A" :> 3000 @@ "A-" :> 3667 @@
     "B+" :> 3333 @@ "B" :> 3000 @@ "B-" :> 2667 @@
     "C+" :> 2333 @@ "C" :> 2000 @@ "C-" :> 1667 @@
     "D+" :> 1333 @@ "D" :> 1000 @@ "D-" :> 667 @@
     "F" :> 0)
gpa_map_FlatAPlus ==
    ("A+" :> 4000 @@ "A" :> 4000 @@ "A-" :> 3667 @@
     "B+" :> 3333 @@ "B" :> 3000 @@ "B-" :> 2667 @@
     "C+" :> 2333 @@ "C" :> 2000 @@ "C-" :> 1667 @@
     "D+" :> 1333 @@ "D" :> 1000 @@ "D-" :> 667 @@
     "F" :> 0)

gpa_map ==
    ("A+" :> 4333 @@ "A" :> 4000 @@ "A-" :> 3667 @@
     "B+" :> 3333 @@ "B" :> 3000 @@ "B-" :> 2667 @@
     "C+" :> 2333 @@ "C" :> 2000 @@ "C-" :> 1667 @@
     "D+" :> 1333 @@ "D" :> 1000 @@ "D-" :> 667 @@
     "F" :> 0)

passing_grades ==
    <<"A+", "A", "A-", "B+", "B", "B-", "C+", "C", "C-", "D+", "D", "D-", "S", "P">>
\* mutant of failing_grades: "F" left out
failing_grades_NoF == <<"N">>
failing_grades == <<"F", "N">>
withdrawn_grades == <<"W">>

a_grades == <<"A+", "A", "A-">>
b_grades == <<"B+", "B", "B-">>
c_grades == <<"C+", "C", "C-">>
d_grades == <<"D+", "D", "D-">>
f_grades == <<"F">>

\* the labels of m that the loop over grades.items() finds in gpa_map
AfLabels(m) == DOMAIN m \cap DOMAIN gpa_map

\* mutant of TotalStudents: only the A-F students are summed
TotalStudents_AfOnly(m) == SumOver(m, DOMAIN m \cap DOMAIN gpa_map)
TotalStudents(m) == SumValues(m)

RECURSIVE PointsOver(_, _)
PointsOver(m, S) ==
    IF S = {} THEN 0
    ELSE LET g == CHOOSE x \in S : TRUE
         IN  gpa_map[g] * m[g] + PointsOver(m, S \ {g})

\* total_points, in thousandths of a grade point
TotalPoints(m) == PointsOver(m, AfLabels(m))

TotalAfStudents(m) == SumOver(m, AfLabels(m))

\* total_points is a float sum of products gpa_map[g] * count: it is exact
\* when every product is (the count is 0 or the grade point is integral)
PointsExact(m) ==
    \A g \in AfLabels(m) : m[g] = 0 \/ gpa_map[g] % GpaScale = 0

\* round(total_points / total_af_students, 3) or None
AverageGpa(m, up) ==
    LET n == TotalPoints(m)
        d == TotalAfStudents(m)
    IN  IF d > 0
        THEN Some(PyRound(n, d, PointsExact(m) /\ Dyadic(n, GpaScale * d), up))
        ELSE None

Passed(m) == SumGet(m, passing_grades)
Failed(m) == SumGet(m, failing_grades)
Withdrawn(m) == SumGet(m, withdrawn_grades)

TotalGradedStudents(m) == Passed(m) + Failed(m)

\* mutant of Rate: "if rate" in place of "if den > 0", so 0.0 becomes None
Rate_Falsy(num, den, up) ==
    IF den > 0 /\ num # 0
    THEN Some(PyRound(num * Percent * RateScale, den, Dyadic(num, den), up))
    ELSE None

\* round((num / den) * 100, 1) if den > 0 else None
Rate(num, den, up) ==
    IF den > 0
    THEN Some(PyRound(num * Percent * RateScale, den, Dyadic(num, den), up))
    ELSE None

\* mutant of PassRate: failed in place of passed
PassRate_Failed(m, up) ==
    IF TotalGradedStudents(m) > 0
    THEN Some(PyRound(Failed(m) * Percent * RateScale, TotalGradedStudents(m),
                      Dyadic(Failed(m), TotalGradedStudents(m)), up))
    ELSE None
PassRate(m, up) == Rate(Passed(m), TotalGradedStudents(m), up)

\* mutant of WithdrawalRate: the band rates' denominator
WithdrawalRate_Graded(m, up) ==
    IF TotalGradedStudents(m) > 0
    THEN Some(PyRound(Withdrawn(m) * Percent * RateScale, TotalGradedStudents(m),
                      Dyadic(Withdrawn(m), TotalGradedStudents(m)), up))
    ELSE None
WithdrawalRate(m, up) == Rate(Withdrawn(m), TotalStudents(m), up)

BandRate(m, band, up) == Rate(SumGet(m, band), TotalGradedStudents(m), up)

\* the result for a falsy or non-dict argument
EarlyReturn ==
    [average_gpa |-> None,
     total_students |-> 0,
     total_graded_students |-> 0,
     total_af_students |-> 0,
     pass_rate |-> None,
     withdrawal_rate |-> None,
     a_rate |-> None,
     b_rate |-> None,
     c_rate |-> None,
     d_rate |-> None,
     f_rate |-> None,
     grade_distribution |-> EmptyDict]

\* down: the rounded fields whose inexact tie, if any, lands on the lower side
calculate_grades_stats(v, down) ==
    IF ~Truthy(v) \/ ~IsDict(v) THEN EarlyReturn
    ELSE LET m == v.items IN
    [average_gpa |-> AverageGpa(m, "average_gpa" \notin down),
     total_students |-> TotalStudents(m),
     total_graded_students |-> TotalGradedStudents(m),
     total_af_students |-> TotalAfStudents(m),
     pass_rate |-> PassRate(m, "pass_rate" \notin down),
     withdrawal_rate |-> WithdrawalRate(m, "withdrawal_rate" \notin down),
     grade_rates |->
        [a_rate |-> BandRate(m, a_grades, "a_rate" \notin down),
         b_rate |-> BandRate(m, b_grades, "b_rate" \notin down),
         c_rate |-> BandRate(m, c_grades, "c_rate" \notin down),
         d_rate |-> BandRate(m, d_grades, "d_rate" \notin down),
         f_rate |-> BandRate(m, f_grades, "f_rate" \notin down)],
     grade_counts |->
        [a_count |-> SumGet(m, a_grades),
         b_count |-> SumGet(m, b_grades),
         c_count |-> SumGet(m, c_grades),
         d_count |-> SumGet(m, d_grades),
         f_count |-> SumGet(m, f_grades),
         withdrawn_count |-> Withdrawn(m),
         passed_count |-> Passed(m),
         failed_count |-> Failed(m)]]

RoundedFields ==
    {"average_gpa", "pass_rate", "withdrawal_rate",
     "a_rate", "b_rate", "c_rate", "d_rate", "f_rate"}

InexactTie(n, d, exact) == d > 0 /\ IsTie(n, d) /\ ~exact

InexactRateTie(num, den) ==
    InexactTie(num * Percent * RateScale, den, Dyadic(num, den))

\* the rounded fields of the result for v that sit on an inexact tie
UtilsTies(v) ==
    IF ~Truthy(v) \/ ~IsDict(v) THEN {}
    ELSE LET m == v.items
             t == TotalGradedStudents(m)
    IN  {f \in RoundedFields :
            \/ f = "average_gpa"
               /\ InexactTie(TotalPoints(m), TotalAfStudents(m),
                     PointsExact(m) /\
                     Dyadic(TotalPoints(m), GpaScale * TotalAfStudents(m)))
            \/ f = "pass_rate" /\ InexactRateTie(Passed(m), t)
            \/ f = "withdrawal_rate"
               /\ InexactRateTie(Withdrawn(m), TotalStudents(m))
            \/ f = "a_rate" /\ InexactRateTie(SumGet(m, a_grades), t)
            \/ f = "b_rate" /\ InexactRateTie(SumGet(m, b_grades), t)
            \/ f = "c_rate" /\ InexactRateTie(SumGet(m, c_grades), t)
            \/ f = "d_rate" /\ InexactRateTie(SumGet(m, d_grades), t)
            \/ f = "f_rate" /\ InexactRateTie(SumGet(m, f_grades), t)}

\* the fields of UtilsTies(v) that the float computation rounds down,
\* order the iteration order of the mapping
UtilsDown(v, order) ==
    LET m == v.items
        t == TotalGradedStudents(m)
        Low(num, den) == FloatRate(num, den) = (num * Percent * RateScale) \div den
    IN  {f \in UtilsTies(v) :
            \/ f = "average_gpa"
               /\ FloatGpa(m, order, gpa_map)
                     = TotalPoints(m) \div TotalAfStudents(m)
            \/ f = "pass_rate" /\ Low(Passed(m), t)
            \/ f = "withdrawal_rate" /\ Low(Withdrawn(m), TotalStudents(m))
            \/ f = "a_rate" /\ Low(SumGet(m, a_grades), t)
            \/ f = "b_rate" /\ Low(SumGet(m, b_grades), t)
            \/ f = "c_rate" /\ Low(SumGet(m, c_grades), t)
            \/ f = "d_rate" /\ Low(SumGet(m, d_grades), t)
            \/ f = "f_rate" /\ Low(SumGet(m, f_grades), t)}

---------------------------------------------------------------------------
(* calculate_grades_stats of src/mcp-server/gopher_grades_server.py *)

server_gpa_map ==
    ("A+" :> 4333 @@ "A" :> 4000 @@ "A-" :> 3667 @@
     "B+" :> 3333 @@ "B" :> 3000 @@ "B-" :> 2667 @@
     "C+" :> 2333 @@ "C" :> 2000 @@ "C-" :> 1667 @@
     "D+" :> 1333 @@ "D" :> 1000 @@ "D-" :> 667 @@
     "F" :> 0)

server_passing_grades ==
    <<"A+", "A", "A-", "B+", "B", "B-", "C+", "C", "C-", "S">>
server_failed_grades == <<"F", "D+", "D", "N">>
server_withdrawn_grades == <<"W">>

\* grades.values() on a value that is no dict
Raised == [raised |-> "AttributeError"]
HasRaised(r) == "raised" \in DOMAIN r

ServerAfLabels(m) == DOMAIN m \cap DOMAIN server_gpa_map

RECURSIVE ServerPointsOver(_, _)
ServerPointsOver(m, S) ==
    IF S = {} THEN 0
    ELSE LET g == CHOOSE x \in S : TRUE
         IN  server_gpa_map[g] * m[g] + ServerPointsOver(m, S \ {g})

ServerTotalPoints(m) == ServerPointsOver(m, ServerAfLabels(m))
ServerTotalAfStudents(m) == SumOver(m, ServerAfLabels(m))

ServerPointsExact(m) ==
    \A g \in ServerAfLabels(m) : m[g] = 0 \/ server_gpa_map[g] % GpaScale = 0

\* round(gpa, 3), reached only with total_af_students > 0
ServerGpa(m, up) ==
    LET n == ServerTotalPoints(m)
        d == ServerTotalAfStudents(m)
    IN  Some(PyRound(n, d, ServerPointsExact(m) /\ Dyadic(n, GpaScale * d), up))

ServerPassed(m) == SumGet(m, server_passing_grades)
ServerFailed(m) == SumGet(m, server_failed_grades)
ServerWithdrawn(m) == SumGet(m, server_withdrawn_grades)
ServerTotalGraded(m) == ServerPassed(m) + ServerFailed(m)

\* rate = (num / den) * 100 if den > 0 else None, then
\* round(rate, 1) if rate else None: a rate of 0.0 is falsy
ServerRate(num, den, up) ==
    IF den > 0 /\ num # 0
    THEN Some(PyRound(num * Percent * RateScale, den, Dyadic(num, den), up))
    ELSE None

ServerPassRate(m, up) == ServerRate(ServerPassed(m), ServerTotalGraded(m), up)

ServerWithdrawalRate(m, up) ==
    ServerRate(ServerWithdrawn(m), ServerTotalGraded(m) + ServerWithdrawn(m), up)

server_calculate_grades_stats(v, down) ==
    IF ~IsDict(v) THEN Raised
    ELSE LET m == v.items IN
        IF ServerTotalAfStudents(m) = 0
        THEN [gpa |-> None,
              total_students |-> SumValues(m),
              total_af_students |-> 0,
              pass_rate |-> None]
        ELSE [gpa |-> ServerGpa(m, "gpa" \notin down),
              total_students |-> SumValues(m),
              total_graded_students |-> ServerTotalGraded(m),
              total_af_students |-> ServerTotalAfStudents(m),
              pass_rate |-> ServerPassRate(m, "pass_rate" \notin down),
              withdrawal_rate |-> ServerWithdrawalRate(m, "withdrawal_rate" \notin down),
              grade_distribution |-> m]

ServerRoundedFields == {"gpa", "pass_rate", "withdrawal_rate"}

ServerTies(v) ==
    IF ~IsDict(v) THEN {}
    ELSE LET m == v.items
             t == ServerTotalGraded(m)
             w == ServerWithdrawn(m)
    IN  IF ServerTotalAfStudents(m) = 0 THEN {}
        ELSE {f \in ServerRoundedFields :
            \/ f = "gpa"
               /\ InexactTie(ServerTotalPoints(m), ServerTotalAfStudents(m),
                     ServerPointsExact(m) /\
                     Dyadic(ServerTotalPoints(m),
                            GpaScale * ServerTotalAfStudents(m)))
            \/ f = "pass_rate" /\ InexactRateTie(ServerPassed(m), t)
            \/ f = "withdrawal_rate" /\ InexactRateTie(w, t + w)}

\* the fields of ServerTies(v) that the float computation rounds down
ServerDown(v, order) ==
    LET m == v.items
        t == ServerTotalGraded(m)
        w == ServerWithdrawn(m)
        Low(num, den) == FloatRate(num, den) = (num * Percent * RateScale) \div den
    IN  {f \in ServerTies(v) :
            \/ f = "gpa"
               /\ FloatGpa(m, order, server_gpa_map)
                     = ServerTotalPoints(m) \div ServerTotalAfStudents(m)
            \/ f = "pass_rate" /\ Low(ServerPassed(m), t)
            \/ f = "withdrawal_rate" /\ Low(w, t + w)}

---------------------------------------------------------------------------
(* The caller *)

Dicts ==
    UNION {[S -> 0..MaxCount] :
              S \in {T \in SUBSET InputLabels : Cardinality(T) <= MaxKeys}}

\* what parse_json_field may hand over besides a mapping: None (a NULL
\* column), a string (text that is no JSON, or a JSON string), a list
NonDicts ==
    {PyNone,
     PyValue("str", EmptyDict), PyValue("str", "A" :> 1),
     PyValue("list", EmptyDict), PyValue("list", "A" :> 1)}

Inputs == {PyValue("dict", m) : m \in Dicts} \cup NonDicts

\* the labels a caller adds students to: "A" and the unrecognized one
IncreaseLabels == {"A", "I"}

NoResult == [pending |-> TRUE]
NoCall == [grades |-> PyNone, result |-> NoResult]
NoAdd == [label |-> "", count |-> 0]

Stats(f, v, down) ==
    IF f = "utils" THEN calculate_grades_stats(v, down)
    ELSE server_calculate_grades_stats(v, down)

Ties(f, v) == IF f = "utils" THEN UtilsTies(v) ELSE ServerTies(v)

\* the orders in which a dict can list the labels of S
Orders(S) ==
    {o \in [1..Cardinality(S) -> S] :
        \A i, j \in 1..Cardinality(S) : o[i] = o[j] => i = j}

\* the labels whose term gpa_map[grade] * count is not 0.0: the order of
\* the other labels leaves total_points as it is
PointLabels(m, table) ==
    {g \in DOMAIN m \cap DOMAIN table : table[g] * m[g] > 0}

\* the sets `down` that the insertion orders of v give
Downs(f, v) ==
    IF Ties(f, v) = {} THEN {{}}
    ELSE IF f = "utils"
         THEN {UtilsDown(v, o) : o \in Orders(PointLabels(v.items, gpa_map))}
         ELSE {ServerDown(v, o) :
                  o \in Orders(PointLabels(v.items, server_gpa_map))}

\* d plus {g: k}
Plus(m, g, k) ==
    [x \in DOMAIN m \cup {g} |-> IF x = g THEN Get(m, g) + k ELSE m[x]]

\* no tool is called
NoTool ==
    /\ db = [professor |-> {}, departmentdistribution |-> {},
             classdistribution |-> <<>>, termdistribution |-> <<>>]
    /\ tool = [name |-> "none"]
    /\ frame = [pc |-> "idle"]
    /\ queries = <<>>
    /\ ret = NoResult

\* no server is running
NoServer ==
    /\ context = [last_query |-> None, last_result |-> None,
                  query_history |-> <<>>]
    /\ calls = <<>>
    /\ lifespan = [pc |-> "none"]

Init ==
    /\ grades \in Inputs
    /\ result = NoResult
    /\ callee = "none"
    /\ pc = "start"
    /\ prev = NoCall
    /\ added = NoAdd
    /\ history = <<>>
    /\ NoTool
    /\ NoServer

CallUtils ==
    /\ pc = "start"
    /\ \E down \in Downs("utils", grades) :
          result' = calculate_grades_stats(grades, down)
    /\ callee' = "utils"
    /\ pc' = "called"
    /\ UNCHANGED <<grades, prev, added, history, toolVars, serverVars>>

CallServer ==
    /\ pc = "start"
    /\ \E down \in Downs("server", grades) :
          result' = server_calculate_grades_stats(grades, down)
    /\ callee' = "server"
    /\ pc' = "called"
    /\ UNCHANGED <<grades, prev, added, history, toolVars, serverVars>>

\* add k students with label g to a mapping and call the same function again
Increase ==
    /\ pc = "called"
    /\ IsDict(grades)
    /\ \E g \in IncreaseLabels, k \in 1..MaxAdd :
          LET v == PyValue("dict", Plus(grades.items, g, k)) IN
          /\ grades' = v
          /\ added' = [label |-> g, count |-> k]
          /\ \E down \in Downs(callee, v) :
                result' = Stats(callee, v, down)
    /\ prev' = [grades |-> grades, result |-> result]
    /\ pc' = "increased"
    /\ UNCHANGED <<callee, history, toolVars, serverVars>>

Next == CallUtils \/ CallServer \/ Increase

Spec == Init /\ [][Next]_vars

---------------------------------------------------------------------------
(* Properties *)

UtilsCalled == callee = "utils" /\ pc \in {"called", "increased"}
ServerCalled == callee = "server" /\ pc \in {"called", "increased"}
UtilsIncreased(g) == callee = "utils" /\ pc = "increased" /\ added.label = g

\* null, an empty mapping, or a non-mapping value
EmptyOrMalformed(v) == ~IsDict(v) \/ DOMAIN v.items = {}

Has(r, f) == f \in DOMAIN r

\* the sum of the counts, label by label in a fixed order
LabelOrder == <<"A+", "A", "B-", "D", "F", "W", "S", "N", "P", "I">>
CountSum(m) == SumGet(m, LabelOrder)

\* a band rate, read where the result carries it
BandRateOf(r, f) == IF Has(r, "grade_rates") THEN r.grade_rates[f] ELSE r[f]
BandRateNames == {"a_rate", "b_rate", "c_rate", "d_rate", "f_rate"}
CountNames ==
    {"a_count", "b_count", "c_count", "d_count", "f_count",
     "withdrawn_count", "passed_count", "failed_count"}

\* b is not below a; an absent a that becomes defined is no decrease
NotDecreased(a, b) == IsNone(a) \/ (~IsNone(b) /\ Val(b) >= Val(a))

\* the mapping has exactly the labels of S, each with a count >= 1
OnlyLabels(v, S) ==
    IsDict(v) /\ DOMAIN v.items = S /\ \A g \in S : v.items[g] >= 1

\* C1: for every mapping d (the empty one and those with unrecognized labels
\* included) the utils calculate_grades_stats returns total_students equal
\* to the sum of all counts in d.
C1_TotalStudentsIsSum ==
    (UtilsCalled /\ IsDict(grades)) =>
        result.total_students = CountSum(grades.items)

C1_Witness ==
    /\ UtilsCalled /\ IsDict(grades)
    /\ Get(grades.items, "I") > 0
    /\ Get(grades.items, "W") > 0
    /\ result.total_students = Get(grades.items, "I") + Get(grades.items, "W")

\* C2: for a null, empty or non-mapping input the utils
\* calculate_grades_stats returns, without error, a result whose average_gpa,
\* pass_rate, withdrawal_rate and five band rates are absent, whose counts
\* (the three totals and the band, passed, failed and withdrawn counts) are
\* all zero, and whose grade_distribution is the empty mapping.
C2_MalformedAllZero ==
    (UtilsCalled /\ EmptyOrMalformed(grades)) =>
        /\ ~HasRaised(result)
        /\ IsNone(result.average_gpa)
        /\ IsNone(result.pass_rate)
        /\ IsNone(result.withdrawal_rate)
        /\ \A f \in BandRateNames : IsNone(BandRateOf(result, f))
        /\ result.total_students = 0
        /\ result.total_graded_students = 0
        /\ result.total_af_students = 0
        /\ Has(result, "grade_distribution")
        /\ result.grade_distribution = EmptyDict
        /\ Has(result, "grade_counts")
        /\ \A f \in CountNames : result.grade_counts[f] = 0

\* C3: the server's calculate_grades_stats never fails on a null, empty or
\* non-mapping distribution: it returns an all-absent, all-zero result.
C3_ServerNeverRaises ==
    (ServerCalled /\ EmptyOrMalformed(grades)) =>
        /\ ~HasRaised(result)
        /\ IsNone(result.gpa)
        /\ IsNone(result.pass_rate)
        /\ result.total_students = 0
        /\ result.total_af_students = 0

\* C4: for a non-empty mapping each ratio of the utils result is absent
\* exactly when its denominator is zero (average_gpa: total_af_students;
\* pass_rate and the band rates: total_graded_students; withdrawal_rate:
\* total_students), and a ratio with a positive denominator and a zero
\* numerator is 0, not absent.
C4_AbsentIffZeroDenominator ==
    (UtilsCalled /\ IsDict(grades) /\ DOMAIN grades.items # {}) =>
        LET r == result
            c == result.grade_counts
            band == [a_rate |-> c.a_count, b_rate |-> c.b_count,
                     c_rate |-> c.c_count, d_rate |-> c.d_count,
                     f_rate |-> c.f_count]
        IN  /\ IsNone(r.average_gpa) <=> r.total_af_students = 0
            /\ IsNone(r.pass_rate) <=> r.total_graded_students = 0
            /\ IsNone(r.withdrawal_rate) <=> r.total_students = 0
            /\ \A f \in BandRateNames :
                  /\ IsNone(r.grade_rates[f]) <=> r.total_graded_students = 0
                  /\ (r.total_graded_students > 0 /\ band[f] = 0)
                        => r.grade_rates[f] = Some(0)
            /\ (r.total_graded_students > 0 /\ c.passed_count = 0)
                  => r.pass_rate = Some(0)
            /\ (r.total_students > 0 /\ c.withdrawn_count = 0)
                  => r.withdrawal_rate = Some(0)
            /\ (r.total_af_students > 0 /\ c.f_count = r.total_af_students)
                  => r.average_gpa = Some(0)

\* only N students: graded but none passed, and no A-F student
C4_Witness ==
    /\ UtilsCalled /\ IsDict(grades)
    /\ Get(grades.items, "N") > 0
    /\ result.total_graded_students > 0
    /\ result.pass_rate = Some(0)
    /\ result.withdrawal_rate = Some(0)
    /\ IsNone(result.average_gpa)

\* C5 as stated: adding k >= 1 students with grade "A" never decreases the
\* average_gpa of the utils result.
C5_AddingANeverLowersGpa ==
    UtilsIncreased("A") =>
        NotDecreased(prev.result.average_gpa, result.average_gpa)

\* C5 as amended: adding k >= 1 students with grade "A" never decreases
\* average_gpa when the average_gpa before is absent or at most 4.0.
C5_AddingARaisesGpaUpTo4 ==
    (UtilsIncreased("A")
       /\ (IsNone(prev.result.average_gpa)
             \/ Val(prev.result.average_gpa) <= 4 * GpaScale)) =>
        NotDecreased(prev.result.average_gpa, result.average_gpa)

C5_Witness ==
    /\ UtilsIncreased("A")
    /\ ~IsNone(prev.result.average_gpa)
    /\ Val(prev.result.average_gpa) < 4 * GpaScale
    /\ Val(result.average_gpa) > Val(prev.result.average_gpa)

\* C6: adding k >= 1 students with grade "A" never decreases the pass_rate
\* of the utils result.
C6_AddingANeverLowersPassRate ==
    UtilsIncreased("A") =>
        NotDecreased(prev.result.pass_rate, result.pass_rate)

C6_Witness ==
    /\ UtilsIncreased("A")
    /\ ~IsNone(prev.result.pass_rate)
    /\ Val(result.pass_rate) > Val(prev.result.pass_rate)

\* C7: adding k > 0 students under an unrecognized label changes
\* total_students and nothing else of the utils result.
C7_UnknownLabelOnlyTotal ==
    UtilsIncreased("I") =>
        /\ DOMAIN result = DOMAIN prev.result
        /\ \A f \in DOMAIN result \ {"total_students"} :
              result[f] = prev.result[f]

\* C8: {"W": n}, n >= 1: average_gpa and pass_rate absent, withdrawal_rate
\* 100, all five band rates absent.
C8_OnlyWithdrawals ==
    (UtilsCalled /\ OnlyLabels(grades, {"W"})) =>
        /\ IsNone(result.average_gpa)
        /\ IsNone(result.pass_rate)
        /\ result.withdrawal_rate = Some(100 * RateScale)
        /\ \A f \in BandRateNames : IsNone(result.grade_rates[f])

C8_Witness ==
    /\ UtilsCalled /\ OnlyLabels(grades, {"W"})
    /\ grades.items["W"] > 1
    /\ result.withdrawal_rate = Some(100 * RateScale)

\* C9: {"A+": n}, n >= 1: average_gpa 4.333, pass_rate 100.0, a_rate 100.0,
\* b_rate = c_rate = d_rate = f_rate = 0.0.
C9_OnlyAPlus ==
    (UtilsCalled /\ OnlyLabels(grades, {"A+"})) =>
        /\ result.average_gpa = Some(4333)
        /\ result.pass_rate = Some(100 * RateScale)
        /\ result.grade_rates.a_rate = Some(100 * RateScale)
        /\ \A f \in BandRateNames \ {"a_rate"} :
              result.grade_rates[f] = Some(0)

C9_Witness ==
    /\ UtilsCalled /\ OnlyLabels(grades, {"A+"})
    /\ grades.items["A+"] > 1
    /\ result.average_gpa = Some(4333)
    /\ result.grade_rates.f_rate = Some(0)

\* C10: {"F": n, "A": n}, n >= 1: average_gpa 2.0, pass_rate 50.0,
\* f_rate 50.0, a_rate 50.0.
C10_HalfAHalfF ==
    (UtilsCalled /\ OnlyLabels(grades, {"F", "A"})
       /\ grades.items["F"] = grades.items["A"]) =>
        /\ result.average_gpa = Some(2 * GpaScale)
        /\ result.pass_rate = Some(50 * RateScale)
        /\ result.grade_rates.f_rate = Some(50 * RateScale)
        /\ result.grade_rates.a_rate = Some(50 * RateScale)

C10_Witness ==
    /\ UtilsCalled /\ OnlyLabels(grades, {"F", "A"})
    /\ grades.items["F"] = grades.items["A"]
    /\ grades.items["A"] > 1
    /\ result.average_gpa = Some(2 * GpaScale)
    /\ result.pass_rate = Some(50 * RateScale)

---------------------------------------------------------------------------
(* A caller that calls one of the two calculate_grades_stats several      *)
(* times, each time on a dict that lists its labels in some order          *)

MaxCalls == 2          \* number of calls of the caller

OrderLabels == {"A+", "A", "A-"}

\* the dicts over OrderLabels: keys is the insertion order of the labels
OrderedDicts ==
    UNION {{[keys |-> o, items |-> m] :
               o \in Orders(S), m \in [S -> 1..MaxCount]} :
              S \in SUBSET OrderLabels}

\* no caller of the two functions is running
NoCaller ==
    /\ grades = PyNone
    /\ result = NoResult
    /\ callee = "none"
    /\ pc = "idle"
    /\ prev = NoCall
    /\ added = NoAdd

InitRepeat ==
    /\ NoCaller
    /\ history = <<>>
    /\ NoTool
    /\ NoServer

\* the set `down` of the dict v with its labels in the order keys
Down(f, v, keys) ==
    IF f = "utils" THEN UtilsDown(v, keys) ELSE ServerDown(v, keys)

\* one more call of the function the caller uses; neither function assigns
\* to a key of its argument, so the dict after the call (after) is the
\* dict before it
CallAgain ==
    /\ Len(history) < MaxCalls
    /\ \E f \in {"utils", "server"}, d \in OrderedDicts :
          LET v == PyValue("dict", d.items) IN
          /\ \A i \in DOMAIN history : history[i].callee = f
          /\ history' = Append(history,
                           [callee |-> f,
                            keys |-> d.keys,
                            items |-> d.items,
                            after |-> d.items,
                            result |-> Stats(f, v, Down(f, v, d.keys))])
    /\ UNCHANGED <<callerVars, toolVars, serverVars>>

NextRepeat == CallAgain

SpecRepeat == InitRepeat /\ [][NextRepeat]_vars

\* C11: calculate_grades_stats is deterministic and stateless: in any
\* sequence of calls, two calls of it with equal input mappings return
\* equal results, and no call modifies the mapping it was given.
C11_EqualInputsEqualResults ==
    \A i, j \in DOMAIN history :
        /\ history[i].after = history[i].items
        /\ (history[i].callee = history[j].callee
               /\ history[i].items = history[j].items)
              => history[i].result = history[j].result

\* the labels of a Python list of labels
ListSet(lst) == {lst[i] : i \in DOMAIN lst}

\* C12: for every input mapping d, empty or not, the result of the utils
\* calculate_grades_stats carries a grade_distribution equal to d.
C12_DistributionEchoed ==
    (UtilsCalled /\ IsDict(grades)) =>
        /\ Has(result, "grade_distribution")
        /\ result.grade_distribution = grades.items

---------------------------------------------------------------------------
(* The tools that search the courses: find_easy_courses,                   *)
(* find_challenging_courses and find_grade_inflated_courses                *)

MaxCourses == 3        \* number of rows the query of a search tool fetches
MaxLimit == 2          \* largest limit argument of a search tool

CourseNames == <<"CSCI 1133", "CSCI 2021", "MATH 1271", "STAT 3011">>

\* the total_grades column of a classdistribution row as row_to_dict parses
\* it, keys the order of the labels in the JSON text
CourseGrades ==
    {[total_grades |-> PyNone, keys |-> <<>>],
     [total_grades |-> PyValue("dict", EmptyDict), keys |-> <<>>],
     [total_grades |-> PyValue("dict", "F" :> 2), keys |-> <<"F">>],
     [total_grades |-> PyValue("dict", "W" :> 2), keys |-> <<"W">>],
     [total_grades |-> PyValue("dict", "A" :> 2), keys |-> <<"A">>],
     [total_grades |-> PyValue("dict", "B" :> 2), keys |-> <<"B">>],
     [total_grades |-> PyValue("dict", "A" :> 1 @@ "C" :> 1),
      keys |-> <<"A", "C">>]}

\* the rows a query over classdistribution returns, one course each
CourseRows(n) ==
    {[i \in 1..n |-> [course |-> CourseNames[i],
                      total_grades |-> c[i].total_grades,
                      keys |-> c[i].keys]] :
        c \in [1..n -> CourseGrades]}

\* calculate_grades_stats(course['total_grades'])
CourseStats(course) ==
    server_calculate_grades_stats(
        course.total_grades,
        IF IsDict(course.total_grades)
        THEN ServerDown(course.total_grades, course.keys) ELSE {})

\* list.sort(key=...) and list.sort(key=..., reverse=True) of a list whose
\* items carry their key: stable, an item goes behind the items it ties with
RECURSIVE InsertByKey(_, _, _)
InsertByKey(sorted, x, reverse) ==
    IF sorted = <<>> THEN <<x>>
    ELSE IF (reverse /\ x.key > Head(sorted).key)
              \/ (~reverse /\ x.key < Head(sorted).key)
         THEN <<x>> \o sorted
         ELSE <<Head(sorted)>> \o InsertByKey(Tail(sorted), x, reverse)

RECURSIVE SortByKey(_, _)
SortByKey(lst, reverse) ==
    IF lst = <<>> THEN <<>>
    ELSE InsertByKey(SortByKey(SubSeq(lst, 1, Len(lst) - 1), reverse),
                     lst[Len(lst)], reverse)

Items(keyed) == [i \in DOMAIN keyed |-> keyed[i].item]

\* lst[:limit]
Slice(lst, limit) == SubSeq(lst, 1, IF limit < Len(lst) THEN limit ELSE Len(lst))

\* a truthy float: neither None nor 0.0
TruthyNumber(x) == ~IsNone(x) /\ Val(x) # 0

\* whether some call of calculate_grades_stats in a loop over rows raises
AnyRaises(rows) == \E i \in DOMAIN rows : HasRaised(CourseStats(rows[i]))

\* what a handler hands back with a return statement
Return(x) == [returned |-> x]

\* the largest integer that is not above the float f
FloatFloor(f) ==
    IF f.e >= 0 THEN NatOf(ShiftLeft(f.m, f.e))
    ELSE NatOf(ShiftRight(f.m, 0 - f.e).q)

\* the dict appended for a course (the columns that are copied as they are,
\* description, total_students and credits, are left out)
GpaEntry(course) ==
    [course |-> course.course,
     average_gpa |-> CourseStats(course).gpa,
     pass_rate |-> CourseStats(course).pass_rate]

\* the appended dicts with their sort key
ByAverageGpa(kept) ==
    [i \in DOMAIN kept |->
        [key |-> Val(CourseStats(kept[i]).gpa), item |-> GpaEntry(kept[i])]]

\* min_gpa in thousandths
find_easy_courses(rows, min_gpa, limit) ==
    IF AnyRaises(rows) THEN Raised
    ELSE LET Keep(c) == /\ TruthyNumber(CourseStats(c).gpa)
                        /\ Val(CourseStats(c).gpa) >= min_gpa
             courses_with_gpa == ByAverageGpa(SelectSeq(rows, Keep))
         IN  Return(Slice(Items(SortByKey(courses_with_gpa, TRUE)), limit))

\* max_gpa in thousandths
find_challenging_courses(rows, max_gpa, limit) ==
    IF AnyRaises(rows) THEN Raised
    ELSE LET Keep(c) == /\ TruthyNumber(CourseStats(c).gpa)
                        /\ Val(CourseStats(c).gpa) <= max_gpa
             courses_with_gpa == ByAverageGpa(SelectSeq(rows, Keep))
         IN  Return(Slice(Items(SortByKey(courses_with_gpa, FALSE)), limit))

\* grades.get("A+", 0) + grades.get("A", 0) + grades.get("A-", 0)
AGrades(m) == Get(m, "A+") + Get(m, "A") + Get(m, "A-")

\* (a_grades / total) * 100
APercentage(m) ==
    FloatMul(FloatDiv(FloatOfInt(AGrades(m)), SumValues(m)), Percent)

\* round(a_percentage, 2), in hundredths of a percent
PercentScale == 100

InflatedEntry(course) ==
    [course |-> course.course,
     a_grade_percentage |->
        FloatRound(APercentage(course.total_grades.items), PercentScale),
     average_gpa |-> CourseStats(course).gpa,
     total_students |-> SumValues(course.total_grades.items)]

\* min_a_percentage in percent, a whole number
find_grade_inflated_courses(rows, min_a_percentage, limit) ==
    IF \E i \in DOMAIN rows : ~IsDict(rows[i].total_grades) THEN Raised
    ELSE LET Keep(c) ==
                 /\ SumValues(c.total_grades.items) > 0
                 /\ FloatFloor(APercentage(c.total_grades.items))
                       >= min_a_percentage
             kept == SelectSeq(rows, Keep)
             inflated_courses ==
                 [i \in DOMAIN kept |->
                     [key |-> InflatedEntry(kept[i]).a_grade_percentage,
                      item |-> InflatedEntry(kept[i])]]
         IN  Return(Slice(Items(SortByKey(inflated_courses, TRUE)), limit))

\* the tables: the ids of professor, the dept_abbr of departmentdistribution,
\* and the rows of classdistribution and of termdistribution (joined with
\* its distribution) in fetch order
Database(professor, departmentdistribution, classdistribution, termdistribution) ==
    [professor |-> professor,
     departmentdistribution |-> departmentdistribution,
     classdistribution |-> classdistribution,
     termdistribution |-> termdistribution]

Start == [pc |-> "start"]
Returned == [pc |-> "returned"]

MinGpas == {0, 3500}
MaxGpas == {2500}
MinAPercentages == {50}

InitFind ==
    /\ NoCaller
    /\ history = <<>>
    /\ db \in {Database({}, {}, rows, <<>>) :
                 rows \in UNION {CourseRows(n) : n \in 0..MaxCourses}}
    /\ tool = [name |-> "none"]
    /\ frame = Start
    /\ queries = <<>>
    /\ ret = NoResult
    /\ NoServer

\* a handler that runs from its one query to its return
Handle(call, query, value) ==
    /\ frame = Start
    /\ tool' = call
    /\ queries' = Append(queries, query)
    /\ ret' = value
    /\ frame' = IF HasRaised(value) THEN [pc |-> "raised"] ELSE Returned
    /\ UNCHANGED <<callerVars, history, db, serverVars>>

FindEasyCourses ==
    \E min_gpa \in MinGpas, limit \in 1..MaxLimit :
        Handle([name |-> "find_easy_courses",
                threshold |-> min_gpa, limit |-> limit],
               "classdistribution",
               find_easy_courses(db.classdistribution, min_gpa, limit))

FindChallengingCourses ==
    \E max_gpa \in MaxGpas, limit \in 1..MaxLimit :
        Handle([name |-> "find_challenging_courses",
                threshold |-> max_gpa, limit |-> limit],
               "classdistribution",
               find_challenging_courses(db.classdistribution, max_gpa, limit))

FindGradeInflatedCourses ==
    \E min_a_percentage \in MinAPercentages, limit \in 1..MaxLimit :
        Handle([name |-> "find_grade_inflated_courses",
                threshold |-> min_a_percentage, limit |-> limit],
               "classdistribution",
               find_grade_inflated_courses(db.classdistribution,
                                           min_a_percentage, limit))

NextFind ==
    FindEasyCourses \/ FindChallengingCourses \/ FindGradeInflatedCourses

SpecFind == InitFind /\ [][NextFind]_vars

SearchTools ==
    {"find_easy_courses", "find_challenging_courses",
     "find_grade_inflated_courses"}

\* a fetched course satisfies the threshold of the tool that was called
SatisfiesThreshold(c) ==
    IF ~IsDict(c.total_grades) THEN FALSE
    ELSE LET m == c.total_grades.items
             gpa == CourseStats(c).gpa
    IN  CASE tool.name = "find_easy_courses" ->
                ~IsNone(gpa) /\ Val(gpa) >= tool.threshold
          [] tool.name = "find_challenging_courses" ->
                ~IsNone(gpa) /\ Val(gpa) <= tool.threshold
          [] tool.name = "find_grade_inflated_courses" ->
                /\ SumValues(m) > 0
                /\ AGrades(m) * Percent >= tool.threshold * SumValues(m)

\* the entries of the courses of rows, in the order of the tool
SortedEntries(rows) ==
    CASE tool.name = "find_easy_courses" ->
            Items(SortByKey(ByAverageGpa(rows), TRUE))
      [] tool.name = "find_challenging_courses" ->
            Items(SortByKey(ByAverageGpa(rows), FALSE))
      [] tool.name = "find_grade_inflated_courses" ->
            Items(SortByKey(
               [i \in DOMAIN rows |->
                   [key |-> InflatedEntry(rows[i]).a_grade_percentage,
                    item |-> InflatedEntry(rows[i])]], TRUE))

\* C13: find_easy_courses, find_challenging_courses and
\* find_grade_inflated_courses compute the statistics of every fetched
\* course, then filter by the threshold, then sort, then truncate: the list
\* returned is the first `limit` elements of the sorted list of all the
\* fetched courses that satisfy the threshold.
C13_FilterSortThenLimit ==
    (tool.name \in SearchTools /\ frame = Returned) =>
        ret = Return(Slice(SortedEntries(SelectSeq(db.classdistribution,
                                                   SatisfiesThreshold)),
                           tool.limit))

---------------------------------------------------------------------------
(* The tools that look an entity up by its key: get_course_details,        *)
(* get_professor_courses, get_department_courses, get_grade_trends,        *)
(* get_professor_grade_statistics, compare_professor_grades and            *)
(* get_course_grade_statistics                                             *)

MaxTerms == 2          \* number of rows of termdistribution
MaxLookupCourses == 2  \* number of courses the lookup tools are asked about

ProfessorIds == {1, 2}
IdLists == {<<>>, <<1>>, <<2>>, <<1, 2>>, <<2, 1>>}
DeptKeys == {"CSCI"}
CourseKeys == {CourseNames[i] : i \in 1..MaxLookupCourses}

\* dept_abbr of the courses of CourseNames
CourseDept == <<"CSCI", "CSCI", "MATH", "STAT">>
DeptOf(course) ==
    CourseDept[CHOOSE i \in DOMAIN CourseNames : CourseNames[i] = course]

\* the term column of the rows of termdistribution, in fetch order
Terms == <<1199, 1203, 1209, 1213>>

\* CAST(t.term / 10 AS INTEGER) + 1900
YearOf(term) == (term \div 10) + 1900

\* the grades column of a termdistribution row as parse_json_field parses it
TermGrades ==
    {[grades |-> PyNone, keys |-> <<>>],
     [grades |-> PyValue("dict", "F" :> 1), keys |-> <<"F">>],
     [grades |-> PyValue("dict", "W" :> 1), keys |-> <<"W">>],
     [grades |-> PyValue("dict", "A" :> 1), keys |-> <<"A">>],
     [grades |-> PyValue("dict", "A" :> 1 @@ "F" :> 1), keys |-> <<"A", "F">>]}

\* the rows of termdistribution joined with their distribution: n rows of
\* the professors P and the courses C with students of N and grades of G
TermRows(n, P, C, N, G) ==
    {[i \in 1..n |-> [professor_id |-> r[i].professor_id,
                      course |-> r[i].course,
                      term |-> Terms[i],
                      students |-> r[i].students,
                      grades |-> r[i].g.grades,
                      keys |-> r[i].g.keys]] :
        r \in [1..n -> [professor_id : P, course : C, students : N, g : G]]}

\* a dict with the insertion order of its keys
OrderedDict(items, keys) == [items |-> items, keys |-> keys]
EmptyOrdered == OrderedDict(EmptyDict, <<>>)

\* for grade, count in grades.items(): acc[grade] = count
Merge_Overwrite(acc, row_grades) ==
    LET IsNew(g) == g \notin DOMAIN acc.items
    IN  OrderedDict([g \in DOMAIN acc.items \cup DOMAIN row_grades.items |->
                        IF g \in DOMAIN row_grades.items THEN row_grades.items[g]
                        ELSE acc.items[g]],
                    acc.keys \o SelectSeq(row_grades.keys, IsNew))

\* for grade, count in grades.items():
\*     acc[grade] = acc.get(grade, 0) + count
Merge(acc, row_grades) ==
    LET IsNew(g) == g \notin DOMAIN acc.items
    IN  OrderedDict([g \in DOMAIN acc.items \cup DOMAIN row_grades.items |->
                        Get(acc.items, g) + Get(row_grades.items, g)],
                    acc.keys \o SelectSeq(row_grades.keys, IsNew))

RowDict(row) == OrderedDict(row.grades.items, row.keys)

\* calculate_grades_stats of a dict the handler has built
StatsOf(d) ==
    server_calculate_grades_stats(
        PyValue("dict", d.items), ServerDown(PyValue("dict", d.items), d.keys))

\* key=lambda x: x["gpa"] if x["gpa"] else 0
GpaKey(gpa) == IF TruthyNumber(gpa) THEN Val(gpa) ELSE 0

\* lst[0] if lst else None, lst[-1] if lst else None
FirstOrNone(lst) == IF lst = <<>> THEN None ELSE Some(lst[1])
LastOrNone(lst) == IF lst = <<>> THEN None ELSE Some(lst[Len(lst)])

Reverse(lst) == [i \in DOMAIN lst |-> lst[Len(lst) + 1 - i]]

RECURSIVE Ascending(_)
Ascending(S) ==
    IF S = {} THEN <<>>
    ELSE LET least == CHOOSE x \in S : \A y \in S : x <= y
         IN  <<least>> \o Ascending(S \ {least})

\* SUM(t.students) over the rows of a group
RECURSIVE SumStudents(_)
SumStudents(rows) ==
    IF rows = <<>> THEN 0
    ELSE rows[1].students + SumStudents(Tail(rows))

\* the dict built from GROUP_CONCAT(t.grades): the concatenation leaves NULL
\* out, and `if grades:` an empty dict
RECURSIVE CombineGrades(_)
CombineGrades(rows) ==
    IF rows = <<>> THEN EmptyOrdered
    ELSE LET acc == CombineGrades(SubSeq(rows, 1, Len(rows) - 1))
             last == rows[Len(rows)]
         IN  IF Truthy(last.grades) THEN Merge(acc, RowDict(last)) ELSE acc

Query(table, key) == [table |-> table, key |-> key]

ProfessorRows(d, professor_id) ==
    LET Taught(r) == r.professor_id = professor_id
    IN  SelectSeq(d.termdistribution, Taught)

ClassRows(d, course) ==
    LET Given(r) == r.course = course
    IN  SelectSeq(d.termdistribution, Given)

HasCourse(d, course) ==
    \E i \in DOMAIN d.classdistribution : d.classdistribution[i].course = course

CourseRow(d, course) ==
    d.classdistribution[CHOOSE i \in DOMAIN d.classdistribution :
                            d.classdistribution[i].course = course]

\* get_course_details: the course with its rows, ORDER BY t.term DESC (the
\* libeds, of a table that is not modelled, are left out)
get_course_details(d, course) ==
    IF ~HasCourse(d, course)
    THEN [issued |-> <<Query("classdistribution", course)>>,
          value |-> Return([error |-> "Course not found"])]
    ELSE [issued |-> <<Query("classdistribution", course),
                       Query("distribution", course),
                       Query("libedAssociationTable", course)>>,
          value |-> Return([course |-> course,
                            total_grades |-> CourseRow(d, course).total_grades,
                            distributions |-> Reverse(ClassRows(d, course))])]

\* get_professor_courses: the professor with the rows, ORDER BY t.term DESC
get_professor_courses(d, professor_id) ==
    IF professor_id \notin d.professor
    THEN [issued |-> <<Query("professor", professor_id)>>,
          value |-> Return([error |-> "Professor not found"])]
    ELSE [issued |-> <<Query("professor", professor_id),
                       Query("distribution", professor_id)>>,
          value |-> Return([id |-> professor_id,
                            courses |-> Reverse(ProfessorRows(d, professor_id))])]

\* get_department_courses: the department with its courses, ORDER BY
\* course_num ASC, which is the order of CourseNames within a department
get_department_courses(d, dept_abbr) ==
    IF dept_abbr \notin d.departmentdistribution
    THEN [issued |-> <<Query("departmentdistribution", dept_abbr)>>,
          value |-> Return([error |-> "Department not found"])]
    ELSE LET InDept(c) == DeptOf(c.course) = dept_abbr
         IN  [issued |-> <<Query("departmentdistribution", dept_abbr),
                           Query("classdistribution", dept_abbr)>>,
              value |-> Return([dept_abbr |-> dept_abbr,
                                courses |-> SelectSeq(d.classdistribution,
                                                      InDept)])]

\* get_grade_trends: GROUP BY t.term ORDER BY t.term DESC; every row of
\* termdistribution has a term of its own
get_grade_trends(d, course) ==
    IF ~HasCourse(d, course)
    THEN [issued |-> <<Query("classdistribution", course)>>,
          value |-> Return([error |-> "Course not found"])]
    ELSE LET rows == Reverse(ClassRows(d, course))
         IN  [issued |-> <<Query("classdistribution", course),
                           Query("distribution", course)>>,
              value |-> Return(
                  [course |-> course,
                   trends |-> [i \in DOMAIN rows |->
                                 [term |-> rows[i].term,
                                  total_students |-> rows[i].students,
                                  combined_grades |-> rows[i].grades,
                                  professors |-> rows[i].professor_id]]])]

\* the locals of get_professor_grade_statistics when its loop starts
LoopStart(rows) ==
    [pc |-> "rows", rows |-> rows, i |-> 0,
     all_grades |-> EmptyOrdered,
     total_students |-> 0,
     course_grades |-> <<>>]

\* course_grades after the body of the loop has run for row: the dict keeps
\* its keys in the order of their first row
AddRow(course_grades, row) ==
    LET known == \E i \in DOMAIN course_grades :
                    course_grades[i].course = row.course
        started == IF known THEN course_grades
                   ELSE Append(course_grades,
                               [course |-> row.course,
                                grades |-> EmptyOrdered,
                                students |-> 0])
    IN  [i \in DOMAIN started |->
            IF started[i].course = row.course
            THEN [started[i] EXCEPT !.grades = Merge(@, RowDict(row)),
                                    !.students = @ + row.students]
            ELSE started[i]]

\* stats["course"] = course; stats["students"] = data["students"]
CourseEntry(c) ==
    StatsOf(c.grades) @@ [course |-> c.course, students |-> c.students]

\* round((count / total_students) * 100, 1), in tenths of a percent
GradePercentages(all_grades, total_students) ==
    IF total_students > 0
    THEN [g \in DOMAIN all_grades.items |->
            FloatRound(FloatMul(FloatDiv(FloatOfInt(all_grades.items[g]),
                                         total_students), Percent),
                       RateScale)]
    ELSE EmptyDict

\* what get_professor_grade_statistics returns after its loop (the columns of
\* the professor and the number of terms are left out)
ProfessorStatistics(professor_id, f) ==
    LET course_stats ==
            [i \in DOMAIN f.course_grades |->
                [key |-> GpaKey(CourseEntry(f.course_grades[i]).gpa),
                 item |-> CourseEntry(f.course_grades[i])]]
        sorted == Items(SortByKey(course_stats, TRUE))
        overall_stats == StatsOf(f.all_grades)
    IN  Return(
          [professor |-> professor_id,
           overall_statistics |->
              [total_students_taught |-> f.total_students,
               unique_courses |-> Len(f.course_grades),
               overall_gpa |-> overall_stats.gpa,
               overall_pass_rate |-> overall_stats.pass_rate,
               grade_distribution |-> f.all_grades.items,
               grade_percentages |->
                  GradePercentages(f.all_grades, f.total_students)],
           by_course |-> sorted,
           easiest_course |-> FirstOrNone(sorted),
           hardest_course |-> LastOrNone(sorted)])

\* the dict compare_professor_grades appends for a professor
ComparisonEntry(d, professor_id) ==
    LET rows == ProfessorRows(d, professor_id)
        combined_grades == CombineGrades(rows)
    IN  [id |-> professor_id,
         total_students |->
            IF rows = <<>> THEN None ELSE Some(SumStudents(rows)),
         num_courses |-> Cardinality({rows[i].course : i \in DOMAIN rows}),
         average_gpa |-> StatsOf(combined_grades).gpa,
         pass_rate |-> StatsOf(combined_grades).pass_rate,
         grade_distribution |-> combined_grades.items]

compare_professor_grades(d, professor_ids) ==
    LET Found(id) == id \in d.professor
        found == SelectSeq(professor_ids, Found)
        comparisons ==
            [i \in DOMAIN found |->
                [key |-> GpaKey(ComparisonEntry(d, found[i]).average_gpa),
                 item |-> ComparisonEntry(d, found[i])]]
        sorted == Items(SortByKey(comparisons, TRUE))
    IN  [issued |-> [i \in DOMAIN professor_ids |->
                        Query("professor", professor_ids[i])],
         value |-> Return([comparison |-> sorted,
                           easiest_grader |-> FirstOrNone(sorted),
                           hardest_grader |-> LastOrNone(sorted)])]

\* the dict get_course_grade_statistics appends for a professor of the
\* course (the columns of the professor and the names of the first and the
\* last term are left out)
ProfessorEntry(d, course, professor_id) ==
    LET Taught(r) == r.professor_id = professor_id
        rows == SelectSeq(ClassRows(d, course), Taught)
        combined_grades == CombineGrades(rows)
    IN  [professor_id |-> professor_id,
         total_students |-> SumStudents(rows),
         num_terms_taught |-> Len(rows),
         average_gpa |-> StatsOf(combined_grades).gpa,
         pass_rate |-> StatsOf(combined_grades).pass_rate,
         grade_distribution |-> combined_grades.items]

\* the dict get_course_grade_statistics appends for a year of the course
YearEntry(d, course, year) ==
    LET InYear(r) == YearOf(r.term) = year
        rows == SelectSeq(ClassRows(d, course), InYear)
    IN  [year |-> year,
         total_students |-> SumStudents(rows),
         average_gpa |-> StatsOf(CombineGrades(rows)).gpa,
         pass_rate |-> StatsOf(CombineGrades(rows)).pass_rate]

\* get_course_grade_statistics: the groups of GROUP BY p.id come in the
\* order of the ids, the years with ORDER BY year DESC
get_course_grade_statistics(d, course) ==
    IF ~HasCourse(d, course)
    THEN [issued |-> <<Query("classdistribution", course)>>,
          value |-> Return([error |-> "Course not found"])]
    ELSE LET rows == ClassRows(d, course)
             ids == Ascending({rows[i].professor_id : i \in DOMAIN rows})
             years == Reverse(Ascending({YearOf(rows[i].term) :
                                            i \in DOMAIN rows}))
             professor_stats ==
                 [i \in DOMAIN ids |->
                     [key |-> GpaKey(ProfessorEntry(d, course, ids[i]).average_gpa),
                      item |-> ProfessorEntry(d, course, ids[i])]]
             sorted == Items(SortByKey(professor_stats, TRUE))
             overall_stats == CourseStats(CourseRow(d, course))
         IN  IF HasRaised(overall_stats)
             THEN [issued |-> <<Query("classdistribution", course),
                                Query("distribution", course)>>,
                   value |-> Raised]
             ELSE [issued |-> <<Query("classdistribution", course),
                                Query("distribution", course),
                                Query("distribution", course)>>,
                   value |-> Return(
                     [course |-> course,
                      overall_statistics |->
                         [average_gpa |-> overall_stats.gpa,
                          pass_rate |-> overall_stats.pass_rate,
                          grade_distribution |->
                             CourseRow(d, course).total_grades.items],
                      by_professor |-> sorted,
                      easiest_professor |-> FirstOrNone(sorted),
                      hardest_professor |-> LastOrNone(sorted),
                      yearly_trends |->
                         [i \in DOMAIN years |->
                             YearEntry(d, course, years[i])]])]

\* a handler that runs from its first query to its return
Run(call, handled) ==
    /\ frame = Start
    /\ tool' = call
    /\ queries' = queries \o handled.issued
    /\ ret' = handled.value
    /\ frame' = IF HasRaised(handled.value) THEN [pc |-> "raised"] ELSE Returned
    /\ UNCHANGED <<callerVars, history, db, serverVars>>

GetCourseDetails ==
    \E course \in CourseKeys :
        Run([name |-> "get_course_details", key |-> course],
            get_course_details(db, course))

GetProfessorCourses ==
    \E professor_id \in ProfessorIds :
        Run([name |-> "get_professor_courses", key |-> professor_id],
            get_professor_courses(db, professor_id))

GetDepartmentCourses ==
    \E dept_abbr \in DeptKeys :
        Run([name |-> "get_department_courses", key |-> dept_abbr],
            get_department_courses(db, dept_abbr))

GetGradeTrends ==
    \E course \in CourseKeys :
        Run([name |-> "get_grade_trends", key |-> course],
            get_grade_trends(db, course))

CompareProfessorGrades ==
    \E professor_ids \in IdLists :
        Run([name |-> "compare_professor_grades", key |-> professor_ids],
            compare_professor_grades(db, professor_ids))

GetCourseGradeStatistics ==
    \E course \in CourseKeys :
        Run([name |-> "get_course_grade_statistics", key |-> course],
            get_course_grade_statistics(db, course))

\* get_professor_grade_statistics from its entry to the start of its loop
GetProfessorGradeStatistics ==
    \E professor_id \in ProfessorIds :
        /\ frame = Start
        /\ tool' = [name |-> "get_professor_grade_statistics",
                    key |-> professor_id]
        /\ IF professor_id \notin db.professor
           THEN /\ queries' = Append(queries, Query("professor", professor_id))
                /\ ret' = Return([error |-> "Professor not found"])
                /\ frame' = Returned
           ELSE /\ queries' = queries \o
                       <<Query("professor", professor_id),
                         Query("distribution", professor_id)>>
                /\ ret' = ret
                /\ frame' = LoopStart(ProfessorRows(db, professor_id))
        /\ UNCHANGED <<callerVars, history, db, serverVars>>

\* one pass of the body of the loop; grades.items() raises when the grades
\* column is NULL
ProcessRow ==
    /\ frame.pc = "rows"
    /\ frame.i < Len(frame.rows)
    /\ LET row == frame.rows[frame.i + 1]
       IN  IF ~IsDict(row.grades)
           THEN /\ frame' = [pc |-> "raised"]
                /\ ret' = Raised
           ELSE /\ frame' =
                     [frame EXCEPT
                        !.i = @ + 1,
                        !.total_students = @ + row.students,
                        !.all_grades = Merge(@, RowDict(row)),
                        !.course_grades = AddRow(@, row)]
                /\ ret' = ret
    /\ UNCHANGED <<callerVars, history, db, tool, queries, serverVars>>

\* get_professor_grade_statistics from the end of its loop to its return
FinishProfessorStatistics ==
    /\ frame.pc = "rows"
    /\ frame.i = Len(frame.rows)
    /\ ret' = ProfessorStatistics(tool.key, frame)
    /\ frame' = Returned
    /\ UNCHANGED <<callerVars, history, db, tool, queries, serverVars>>

\* classdistribution with the first n courses, their total_grades empty
PlainCourses(n) ==
    [i \in 1..n |-> [course |-> CourseNames[i],
                     total_grades |-> PyValue("dict", EmptyDict),
                     keys |-> <<>>]]

\* professor 1 with the term rows of their courses; professor 2 is not in
\* the table
InitProfessor ==
    /\ NoCaller
    /\ history = <<>>
    /\ db \in {Database({1}, DeptKeys, PlainCourses(MaxLookupCourses), rows) :
                 rows \in UNION {TermRows(n, {1}, CourseKeys, {1, 2}, TermGrades) :
                                    n \in 0..MaxTerms}}
    /\ tool = [name |-> "none"]
    /\ frame = Start
    /\ queries = <<>>
    /\ ret = NoResult
    /\ NoServer

NextProfessor ==
    GetProfessorGradeStatistics \/ ProcessRow \/ FinishProfessorStatistics

SpecProfessor == InitProfessor /\ [][NextProfessor]_vars

\* the total_grades of the courses the lookup tools are asked about
LookupGrades ==
    {c \in CourseGrades : ~IsDict(c.total_grades) \/ c.keys = <<"A">>}

\* the grades of the term rows the lookup tools read
SingleGrades == {g \in TermGrades : Len(g.keys) <= 1}

\* any professors, departments and courses, and term rows of the professors
\* and the courses there are
InitTools ==
    /\ NoCaller
    /\ history = <<>>
    /\ db \in UNION {
          {Database(P, D, courses, rows) :
              rows \in UNION {TermRows(n, P, {courses[i].course : i \in DOMAIN courses},
                                       {1}, SingleGrades) :
                                 n \in 0..MaxTerms}} :
          P \in SUBSET ProfessorIds, D \in SUBSET DeptKeys,
          courses \in {c \in UNION {CourseRows(n) : n \in 0..MaxLookupCourses} :
                          \A i \in DOMAIN c :
                              [total_grades |-> c[i].total_grades,
                               keys |-> c[i].keys] \in LookupGrades}}
    /\ tool = [name |-> "none"]
    /\ frame = Start
    /\ queries = <<>>
    /\ ret = NoResult
    /\ NoServer

NextTools ==
    \/ GetCourseDetails
    \/ GetProfessorCourses
    \/ GetDepartmentCourses
    \/ GetGradeTrends
    \/ GetProfessorGradeStatistics
    \/ ProcessRow
    \/ FinishProfessorStatistics
    \/ CompareProfessorGrades
    \/ GetCourseGradeStatistics

SpecTools == InitTools /\ [][NextTools]_vars

---------------------------------------------------------------------------
(* get_grade_distribution_percentiles *)

BigCount == 20000      \* the count of a label with many students

PercentileLabels == <<"A", "F", "P", "X">>
PercentileCounts == {0, 1, BigCount}

\* the total_grades the tool is asked about: NULL, or counts for the labels
\* of PercentileLabels, the labels with a count of 0 left out or kept
PercentileGrades ==
    {[total_grades |-> PyNone, keys |-> <<>>]} \cup
    UNION {{[total_grades |-> PyValue("dict", [g \in S |-> c[g]]),
             keys |-> LET In(g) == g \in S IN SelectSeq(PercentileLabels, In)] :
               S \in {T \in SUBSET DOMAIN c :
                         \A g \in DOMAIN c : c[g] > 0 => g \in T}} :
           c \in [{PercentileLabels[i] : i \in DOMAIN PercentileLabels}
                     -> PercentileCounts]}

grade_order ==
    <<"A+", "A", "A-", "B+", "B", "B-", "C+", "C", "C-", "D+", "D", "D-",
      "F", "W", "S", "N", "P">>

\* round((count / total) * 100, 2), in hundredths of a percent
RoundedShare(count, total) ==
    FloatRound(FloatMul(FloatDiv(FloatOfInt(count), total), Percent),
               PercentScale)

\* cumulative_sum after the pass of the loop for grade_order[i]
CumulativeSum(m, i) == SumGet(m, SubSeq(grade_order, 1, i))

\* percentages and cumulative are dicts filled in the order of grade_order:
\* entry i is the one of grade_order[i] (description is left out)
get_grade_distribution_percentiles(d, course) ==
    LET lookup == <<Query("classdistribution", course)>>
        total_grades == CourseRow(d, course).total_grades
        m == total_grades.items
        total == SumValues(m)
        Range(lst) == RoundedShare(SumGet(m, lst), total)
    IN  IF ~HasCourse(d, course)
        THEN [issued |-> lookup,
              value |-> Return([error |-> "Course not found"])]
        ELSE IF ~IsDict(total_grades)
        THEN [issued |-> lookup, value |-> Raised]
        ELSE IF total = 0
        THEN [issued |-> lookup,
              value |-> Return([error |-> "No grade data available"])]
        ELSE [issued |-> lookup,
              value |-> Return(
                [course |-> course,
                 total_students |-> total,
                 grade_percentages |->
                    [i \in DOMAIN grade_order |->
                        RoundedShare(Get(m, grade_order[i]), total)],
                 cumulative_percentages |->
                    [i \in DOMAIN grade_order |->
                        RoundedShare(CumulativeSum(m, i), total)],
                 summary |->
                    [a_range_percentage |-> Range(a_grades),
                     b_range_percentage |-> Range(b_grades),
                     c_range_percentage |-> Range(c_grades),
                     d_range_percentage |-> Range(d_grades),
                     f_percentage |-> Range(<<"F">>),
                     withdrawal_rate |-> Range(<<"W">>)]])]

GetGradeDistributionPercentiles ==
    \E course \in CourseKeys :
        Run([name |-> "get_grade_distribution_percentiles", key |-> course],
            get_grade_distribution_percentiles(db, course))

\* the first course with any total_grades of PercentileGrades, or no course
InitPercentiles ==
    /\ NoCaller
    /\ history = <<>>
    /\ db \in {Database({}, {}, <<>>, <<>>)} \cup
              {Database({}, {}, <<[course |-> CourseNames[1],
                                   total_grades |-> c.total_grades,
                                   keys |-> c.keys]>>, <<>>) :
                  c \in PercentileGrades}
    /\ tool = [name |-> "none"]
    /\ frame = Start
    /\ queries = <<>>
    /\ ret = NoResult
    /\ NoServer

NextPercentiles == GetGradeDistributionPercentiles

SpecPercentiles == InitPercentiles /\ [][NextPercentiles]_vars

---------------------------------------------------------------------------
(* The server: db_lifespan, Database.query with the log of the DbContext,  *)
(* get_query_logs and get_database_stats                                   *)

MaxQueries == 11   \* calls of Database.query that one task makes in a row
MaxOverlap == 2    \* calls that each of two concurrent tasks makes
LogWindow == 10    \* query_history[-10:]

\* the queries of the calls; params as f"{params}" renders it, "" for none
Statements ==
    {[query |-> "SELECT COUNT(*) as count FROM professor", params |-> ""],
     [query |-> "SELECT * FROM professor WHERE id = ?", params |-> "(1,)"]}

\* formatted_query = f"{query} -- params: {params}" if params else query
Format(query, params) ==
    IF params # "" THEN query \o " -- params: " \o params ELSE query

\* what the executor comes back with: the rows, or an exception
Outcomes ==
    {[ok |-> TRUE, rows |-> 1], [ok |-> FALSE, error |-> "OperationalError"]}

\* a task with `left` calls to make, at pc in its latest call
Task(at, left, query, params) ==
    [pc |-> at, left |-> left, query |-> query, params |-> params]

\* context.last_query = formatted_query
\* context.query_history.append(formatted_query)
LogQuery(c, formatted_query) ==
    [c EXCEPT !.last_query = Some(formatted_query),
              !.query_history = Append(@, formatted_query)]

\* result_summary (type is "all", row_count the number of rows)
ResultSummary(call, outcome) ==
    [type |-> "all", row_count |-> outcome.rows,
     query |-> Format(call.query, call.params)]

\* error_info
ErrorInfo(call, outcome) ==
    [error |-> outcome.error, query |-> call.query, params |-> call.params]

\* Database.query from its entry to the await of the executor
QueryStart ==
    \E t \in DOMAIN calls, s \in Statements :
        /\ lifespan.pc = "serving"
        /\ frame = Start
        /\ calls[t].pc # "executing"
        /\ calls[t].left > 0
        /\ context' = LogQuery(context, Format(s.query, s.params))
        /\ calls' = [calls EXCEPT
                        ![t] = Task("executing", @.left - 1, s.query, s.params)]
        /\ history' = Append(history,
                             [task |-> t, query |-> s.query, params |-> s.params,
                              overlaps |-> \E u \in DOMAIN calls :
                                              u # t /\ calls[u].pc = "executing"])
        /\ UNCHANGED <<callerVars, toolVars, lifespan>>

\* Database.query from the await to its return or to its raise
QueryFinish ==
    \E t \in DOMAIN calls, outcome \in Outcomes :
        /\ calls[t].pc = "executing"
        /\ context' = [context EXCEPT
                          !.last_result =
                             Some(IF outcome.ok
                                  THEN ResultSummary(calls[t], outcome)
                                  ELSE ErrorInfo(calls[t], outcome))]
        /\ calls' = [calls EXCEPT
                        ![t].pc = IF outcome.ok THEN "returned" ELSE "raised"]
        /\ UNCHANGED <<callerVars, history, toolVars, lifespan>>

\* query_history[-10:] if query_history else []
LastQueries_First(query_history) ==
    SubSeq(query_history, 1,
           IF Len(query_history) > LogWindow THEN LogWindow
           ELSE Len(query_history))

LastQueries(query_history) ==
    SubSeq(query_history,
           IF Len(query_history) > LogWindow
           THEN Len(query_history) - LogWindow + 1 ELSE 1,
           Len(query_history))

get_query_logs(c) ==
    Return([last_query |-> c.last_query,
            last_result |-> c.last_result,
            query_history |-> LastQueries(c.query_history),
            total_queries |-> Len(c.query_history)])

GetQueryLogs ==
    /\ lifespan.pc = "serving"
    /\ frame = Start
    /\ tool' = [name |-> "get_query_logs"]
    /\ ret' = get_query_logs(context)
    /\ frame' = Returned
    /\ UNCHANGED <<callerVars, history, db, queries, serverVars>>

\* get_database_stats: `await db_context.db.query(...)['count']` subscripts
\* the coroutine that query(...) hands back, before anything is awaited, so
\* the first of the three statements raises and no query runs
get_database_stats(c) ==
    [context |-> c, value |-> [raised |-> "TypeError"]]

GetDatabaseStats ==
    /\ lifespan.pc = "serving"
    /\ frame = Start
    /\ tool' = [name |-> "get_database_stats"]
    /\ context' = get_database_stats(context).context
    /\ ret' = get_database_stats(context).value
    /\ frame' = [pc |-> "raised"]
    /\ UNCHANGED <<callerVars, history, db, queries, calls, lifespan>>

\* db_lifespan before `db = await Database().connect()`
LifespanStart ==
    [pc |-> "start", connected |-> FALSE, yielded |-> FALSE, body |-> "none",
     disconnects |-> 0, close_failed |-> FALSE, propagated |-> None]

\* db_lifespan at `yield context`
Serving == [LifespanStart EXCEPT !.pc = "serving", !.connected = TRUE,
                                 !.yielded = TRUE, !.body = "running"]

\* Database.connect returns, and the context is yielded; or it raises, and
\* the exception goes through `except` to `finally`
Connect ==
    /\ lifespan.pc = "start"
    /\ \/ lifespan' = Serving
       \/ lifespan' = [lifespan EXCEPT !.pc = "finally",
                                       !.propagated = Some("OperationalError")]
    /\ UNCHANGED <<callerVars, history, toolVars, context, calls>>

\* the body that is served ends, with no call of Database.query under way:
\* control comes back to the yield, normally or with the body's exception
BodyEnd ==
    /\ lifespan.pc = "serving"
    /\ \A t \in DOMAIN calls : calls[t].pc # "executing"
    /\ \/ lifespan' = [lifespan EXCEPT !.pc = "finally", !.body = "returned"]
       \/ lifespan' = [lifespan EXCEPT !.pc = "finally", !.body = "raised",
                                       !.propagated = Some("RuntimeError")]
    /\ UNCHANGED <<callerVars, history, toolVars, context, calls>>

\* the guard of the cleanup without the test of db
IsConnected_Always(l) == TRUE

\* if db is not None
IsConnected(l) == l.connected

\* Database.disconnect: conn.close() raises or not, `except Exception` logs
\* what it raises and goes on
disconnect(l, close_raises) ==
    [l EXCEPT !.disconnects = @ + 1, !.close_failed = close_raises]

\* the finally clause of db_lifespan
Cleanup ==
    /\ lifespan.pc = "finally"
    /\ \E close_raises \in BOOLEAN :
          lifespan' = IF IsConnected(lifespan)
                      THEN [disconnect(lifespan, close_raises) EXCEPT !.pc = "ended"]
                      ELSE [lifespan EXCEPT !.pc = "ended"]
    /\ UNCHANGED <<callerVars, history, toolVars, context, calls>>

\* the database of a server
ServerDatabase == Database({1}, DeptKeys, PlainCourses(MaxLookupCourses), <<>>)

FreshContext ==
    [last_query |-> None, last_result |-> None, query_history |-> <<>>]

\* a server that serves one task
InitLog ==
    /\ NoCaller
    /\ history = <<>>
    /\ db = ServerDatabase
    /\ tool = [name |-> "none"]
    /\ frame = Start
    /\ queries = <<>>
    /\ ret = NoResult
    /\ context = FreshContext
    /\ calls = <<Task("idle", MaxQueries, "", "")>>
    /\ lifespan = Serving

NextLog == QueryStart \/ QueryFinish \/ GetQueryLogs \/ GetDatabaseStats

SpecLog == InitLog /\ [][NextLog]_vars

\* a server that is started and will serve two tasks
InitServer ==
    /\ NoCaller
    /\ history = <<>>
    /\ db = ServerDatabase
    /\ tool = [name |-> "none"]
    /\ frame = Start
    /\ queries = <<>>
    /\ ret = NoResult
    /\ context = FreshContext
    /\ calls \in {<<Task("idle", a, "", ""), Task("idle", b, "", "")>> :
                     a, b \in 0..MaxOverlap}
    /\ lifespan = LifespanStart

NextServer ==
    \/ Connect
    \/ QueryStart
    \/ QueryFinish
    \/ BodyEnd
    \/ Cleanup

SpecServer == InitServer /\ [][NextServer]_vars

RankingTools ==
    {"get_professor_grade_statistics", "compare_professor_grades",
     "get_course_grade_statistics"}

\* the sorted list of a result with the entries picked as easiest and hardest
Ranking(r) ==
    CASE tool.name = "get_professor_grade_statistics" ->
            [list |-> r.by_course,
             easiest |-> r.easiest_course, hardest |-> r.hardest_course]
      [] tool.name = "compare_professor_grades" ->
            [list |-> r.comparison,
             easiest |-> r.easiest_grader, hardest |-> r.hardest_grader]
      [] tool.name = "get_course_grade_statistics" ->
            [list |-> r.by_professor,
             easiest |-> r.easiest_professor, hardest |-> r.hardest_professor]

GpaOf(entry) ==
    IF "gpa" \in DOMAIN entry THEN entry.gpa ELSE entry.average_gpa

\* C14: in the list get_professor_grade_statistics, compare_professor_grades
\* and get_course_grade_statistics sort by GPA descending, every entry whose
\* GPA is absent comes after every entry whose GPA is defined, 0.0 included,
\* the defined GPAs descend, and the easiest and the hardest entry are the
\* first and the last of the list.
C14_AbsentGpaRankedLast ==
    (/\ tool.name \in RankingTools
     /\ frame = Returned
     /\ "error" \notin DOMAIN ret.returned) =>
        LET ranking == Ranking(ret.returned)
            list == ranking.list
        IN  /\ \A i, j \in DOMAIN list :
                  i < j =>
                     /\ ~(IsNone(GpaOf(list[i])) /\ ~IsNone(GpaOf(list[j])))
                     /\ (~IsNone(GpaOf(list[i])) /\ ~IsNone(GpaOf(list[j]))
                            => Val(GpaOf(list[i])) >= Val(GpaOf(list[j])))
            /\ ranking.easiest = FirstOrNone(list)
            /\ ranking.hardest = LastOrNone(list)

LookupTools ==
    {"get_course_details", "get_professor_courses", "get_department_courses",
     "get_grade_trends", "get_professor_grade_statistics",
     "get_course_grade_statistics", "compare_professor_grades"}

\* the keys the call of a lookup tool asks about
Asked(call) ==
    IF call.name = "compare_professor_grades"
    THEN {call.key[i] : i \in DOMAIN call.key}
    ELSE {call.key}

\* the table of the tool holds the entity of key k
Present(call, k) ==
    CASE call.name \in {"get_professor_courses",
                        "get_professor_grade_statistics",
                        "compare_professor_grades"} -> k \in db.professor
      [] call.name = "get_department_courses" ->
            k \in db.departmentdistribution
      [] OTHER -> HasCourse(db, k)

\* the result says that the entity of key k was not found: as a whole, or
\* in an entry of its own for k
ReportsAbsent(r, k) ==
    /\ ~HasRaised(r)
    /\ \/ "error" \in DOMAIN r.returned
       \/ /\ "comparison" \in DOMAIN r.returned
          /\ \E i \in DOMAIN r.returned.comparison :
                r.returned.comparison[i].id = k

QueriesFor(k) == Len(SelectSeq(queries, LAMBDA q : q.key = k))

\* C15: when a lookup tool has ended and an entity it was asked about is
\* not in its table, the result reports that entity as not found, neither
\* raising nor leaving it out, and the lookup that found nothing is the only
\* query issued for that entity.
C15_AbsentEntityReported ==
    (tool.name \in LookupTools /\ frame.pc \in {"returned", "raised"}) =>
        \A k \in Asked(tool) :
            ~Present(tool, k) => ReportsAbsent(ret, k) /\ QueriesFor(k) = 1

\* the ways to round a value that lies exactly halfway
TieRules == {"half-even", "half-up", "half-down"}

\* n / d rounded to an integer, halves by the rule
RuleRound(n, d, rule) ==
    LET q == n \div d
        r == n % d
    IN  IF 2 * r < d THEN q
        ELSE IF 2 * r > d THEN q + 1
        ELSE IF rule = "half-up" THEN q + 1
        ELSE IF rule = "half-down" THEN q
        ELSE IF q % 2 = 0 THEN q ELSE q + 1

\* numerator and denominator of the exact value of each rounded field, in
\* thousandths (average_gpa) and tenths of a percent (the rates)
Quotients(m) ==
    LET t == TotalGradedStudents(m)
        P(n) == n * Percent * RateScale
    IN  [average_gpa |-> <<TotalPoints(m), TotalAfStudents(m)>>,
         pass_rate |-> <<P(Passed(m)), t>>,
         withdrawal_rate |-> <<P(Withdrawn(m)), TotalStudents(m)>>,
         a_rate |-> <<P(SumGet(m, a_grades)), t>>,
         b_rate |-> <<P(SumGet(m, b_grades)), t>>,
         c_rate |-> <<P(SumGet(m, c_grades)), t>>,
         d_rate |-> <<P(SumGet(m, d_grades)), t>>,
         f_rate |-> <<P(SumGet(m, f_grades)), t>>]

FieldOf(r, f) == IF f \in BandRateNames THEN BandRateOf(r, f) ELSE r[f]

\* C16: every non-absent percentage of the utils result is the exact ratio
\* rounded to one decimal place and a non-absent average_gpa is the exact
\* weighted mean rounded to three decimal places, with one rounding rule
\* used for all fields of all results.
C16_OneRoundingRule ==
    \E rule \in TieRules :
        \A i \in DOMAIN history :
            LET r == history[i].result
                q == Quotients(history[i].items)
            IN  history[i].callee = "utils" =>
                \A f \in RoundedFields :
                   ~IsNone(FieldOf(r, f)) =>
                       Val(FieldOf(r, f)) = RuleRound(q[f][1], q[f][2], rule)

\* C17: in the utils calculate_grades_stats the passing, failing and
\* withdrawn label sets are pairwise disjoint, and for every distribution
\* total_graded_students = passed_count + failed_count and
\* passed_count + failed_count + withdrawn_count <= total_students.
C17_CountsPartition ==
    /\ ListSet(passing_grades) \cap ListSet(failing_grades) = {}
    /\ ListSet(passing_grades) \cap ListSet(withdrawn_grades) = {}
    /\ ListSet(failing_grades) \cap ListSet(withdrawn_grades) = {}
    /\ (UtilsCalled /\ IsDict(grades)) =>
          /\ Has(result, "grade_counts")
          /\ result.total_graded_students
                = result.grade_counts.passed_count
                     + result.grade_counts.failed_count
          /\ result.grade_counts.passed_count
                + result.grade_counts.failed_count
                + result.grade_counts.withdrawn_count
                   <= result.total_students

\* r is n / d * 100 rounded to one decimal place, in tenths
IsRoundedRate(r, n, d) ==
    ~IsNone(r) /\ 2 * (Val(r) * d - n * Percent * RateScale) <= d
               /\ 2 * (n * Percent * RateScale - Val(r) * d) <= d

\* C18: for every distribution the band counts of the utils result are
\* a_count = A+ + A + A-, b_count = B+ + B + B-, c_count = C+ + C + C-,
\* d_count = D+ + D + D- and f_count = F alone (N is in no band); when
\* total_graded_students > 0 each band rate is its band count over
\* total_graded_students, times 100; and with S, P or N students present
\* the five band rates sum to less than 100.
C18_BandCountsAndRates ==
    (UtilsCalled /\ IsDict(grades)) =>
        LET m == grades.items
            G(g) == Get(m, g)
            band == <<"a", "b", "c", "d", "f">>
            Count(i) == result.grade_counts[band[i] \o "_count"]
            RateOf(i) == BandRateOf(result, band[i] \o "_rate")
        IN  /\ Has(result, "grade_counts")
            /\ Count(1) = G("A+") + G("A") + G("A-")
            /\ Count(2) = G("B+") + G("B") + G("B-")
            /\ Count(3) = G("C+") + G("C") + G("C-")
            /\ Count(4) = G("D+") + G("D") + G("D-")
            /\ Count(5) = G("F")
            /\ result.total_graded_students > 0 =>
                  /\ \A i \in 1..5 :
                        IsRoundedRate(RateOf(i), Count(i),
                                      result.total_graded_students)
                  /\ G("S") + G("P") + G("N") > 0 =>
                        Val(RateOf(1)) + Val(RateOf(2)) + Val(RateOf(3))
                           + Val(RateOf(4)) + Val(RateOf(5))
                              < Percent * RateScale

\* the sum of grades[g] over rows
RECURSIVE SumGrade(_, _)
SumGrade(rows, g) ==
    IF rows = <<>> THEN 0
    ELSE Get(rows[1].grades.items, g) + SumGrade(Tail(rows), g)

\* the sum of course_grades[c].grades[g] over the course keys c
RECURSIVE SumCourseGrade(_, _)
SumCourseGrade(course_grades, g) ==
    IF course_grades = <<>> THEN 0
    ELSE Get(course_grades[1].grades.items, g)
            + SumCourseGrade(Tail(course_grades), g)

\* the rows the loop of get_professor_grade_statistics has processed
Processed == SubSeq(frame.rows, 1, frame.i)

RowLabels(rows) == UNION {DOMAIN rows[i].grades.items : i \in DOMAIN rows}

\* C19: in get_professor_grade_statistics, after any number of passes of
\* the loop, for every grade label g all_grades[g] is the sum of grades[g]
\* over the rows processed so far and so is the sum of
\* course_grades[c].grades[g] over the course keys c; total_students is the
\* sum of row.students and the sum of course_grades[c].students; the labels
\* of all_grades are those of the rows, none renamed or dropped.
C19_AggregatesAreSums ==
    (tool.name = "get_professor_grade_statistics" /\ frame.pc = "rows") =>
        /\ DOMAIN frame.all_grades.items = RowLabels(Processed)
        /\ \A g \in RowLabels(frame.rows) :
              /\ Get(frame.all_grades.items, g) = SumGrade(Processed, g)
              /\ SumCourseGrade(frame.course_grades, g) = SumGrade(Processed, g)
        /\ frame.total_students = SumStudents(Processed)
        /\ SumStudents(frame.course_grades) = frame.total_students
        /\ {frame.course_grades[i].course : i \in DOMAIN frame.course_grades}
              = {Processed[i].course : i \in DOMAIN Processed}

\* two rows of two courses with a label in common have been processed
C19_Witness ==
    /\ tool.name = "get_professor_grade_statistics"
    /\ frame.pc = "rows"
    /\ frame.i >= 2
    /\ Len(frame.course_grades) = 2
    /\ \E g \in DOMAIN frame.all_grades.items :
          /\ frame.all_grades.items[g] = 2
          /\ \A i \in DOMAIN frame.course_grades :
                Get(frame.course_grades[i].grades.items, g) = 1
    /\ frame.total_students > frame.i

\* C20: when total_af_students > 0 the server's calculate_grades_stats
\* reports pass_rate absent only if total_graded_students = 0 and
\* withdrawal_rate absent only if total_graded_students + withdrawn = 0: a
\* distribution of F students only has pass_rate 0.0 and one without
\* withdrawals has withdrawal_rate 0.0.
C20_ServerZeroRatesReported ==
    (ServerCalled /\ IsDict(grades) /\ ~HasRaised(result)
        /\ result.total_af_students > 0) =>
        LET m == grades.items IN
        /\ IsNone(result.pass_rate) => result.total_graded_students = 0
        /\ IsNone(result.withdrawal_rate) =>
              result.total_graded_students + Get(m, "W") = 0
        /\ Get(m, "F") = result.total_graded_students =>
              result.pass_rate = Some(0)
        /\ Get(m, "W") = 0 => result.withdrawal_rate = Some(0)

\* C21: find_challenging_courses returns, sorted by average GPA ascending
\* and cut to `limit`, the fetched courses whose average GPA is defined and
\* <= max_gpa; a course whose average GPA is 0.0 is among them and comes
\* first.
C21_ZeroGpaRanksFirst ==
    (tool.name = "find_challenging_courses" /\ frame = Returned) =>
        LET Qualifies(c) ==
                /\ IsDict(c.total_grades)
                /\ ~IsNone(CourseStats(c).gpa)
                /\ Val(CourseStats(c).gpa) <= tool.threshold
            qualifying == SelectSeq(db.classdistribution, Qualifies)
            list == ret.returned
        IN  /\ Len(list) = IF tool.limit < Len(qualifying)
                           THEN tool.limit ELSE Len(qualifying)
            /\ \A i \in DOMAIN list :
                  \E j \in DOMAIN qualifying : list[i] = GpaEntry(qualifying[j])
            /\ \A i, j \in DOMAIN list :
                  i < j => Val(list[i].average_gpa) <= Val(list[j].average_gpa)
            /\ \A j \in DOMAIN qualifying :
                  /\ \A i \in DOMAIN list :
                        Val(list[i].average_gpa)
                           <= Val(CourseStats(qualifying[j]).gpa)
                  /\ CourseStats(qualifying[j]).gpa = Some(0) =>
                        list # <<>> /\ list[1].average_gpa = Some(0)

\* the entries of the log that the calls made so far should have left
Formatted(h) == [i \in DOMAIN h |-> Format(h[i].query, h[i].params)]

\* the statements of get_database_stats, in the order of the code
StatsQueries ==
    <<"SELECT COUNT(*) as count FROM classdistribution",
      "SELECT COUNT(*) as count FROM professor",
      "SELECT COUNT(*) as count FROM departmentdistribution">>

\* C22: get_database_stats completes without an error and returns
\* total_courses, total_professors and total_departments, each the count of
\* the rows of its table, and its three queries are issued in the order of
\* the code: they are the last three entries of the log.
C22_DatabaseStatsReturned ==
    tool.name = "get_database_stats" =>
        /\ ~HasRaised(ret)
        /\ "returned" \in DOMAIN ret
        /\ ret.returned =
              [total_courses |-> Len(db.classdistribution),
               total_professors |-> Cardinality(db.professor),
               total_departments |-> Cardinality(db.departmentdistribution)]
        /\ Len(context.query_history) >= Len(StatsQueries)
        /\ SubSeq(context.query_history,
                  Len(context.query_history) - Len(StatsQueries) + 1,
                  Len(context.query_history)) = StatsQueries

\* C23: after sequential calls of Database.query with one DbContext,
\* query_history holds one entry per call in the order of the calls, a failed
\* call included; last_query is the last entry; last_result describes the
\* latest call: a summary of its result when it returned, the error when it
\* raised, and it is the raising call that leaves the error.  get_query_logs
\* returns the number of calls as total_queries and the last min(10, n)
\* entries in order, issues no query and leaves the log as it was.
C23_SequentialLog ==
    LET n == Len(history)
        latest == history[n]
    IN  /\ context.query_history = Formatted(history)
        /\ n = 0 => context.last_query = None /\ context.last_result = None
        /\ n > 0 => context.last_query = Some(context.query_history[n])
        /\ n > 0 /\ calls[1].pc = "returned" =>
              /\ ~IsNone(context.last_result)
              /\ DOMAIN Val(context.last_result) = {"type", "row_count", "query"}
              /\ Val(context.last_result).query =
                    Format(latest.query, latest.params)
        /\ n > 0 /\ calls[1].pc = "raised" =>
              /\ ~IsNone(context.last_result)
              /\ DOMAIN Val(context.last_result) = {"error", "query", "params"}
              /\ Val(context.last_result).query = latest.query
              /\ Val(context.last_result).params = latest.params
        /\ tool.name = "get_query_logs" =>
              /\ frame = Returned
              /\ queries = <<>>
              /\ ret.returned.total_queries = n
              /\ Len(ret.returned.query_history) =
                    (IF n < LogWindow THEN n ELSE LogWindow)
              /\ \A i \in DOMAIN ret.returned.query_history :
                    ret.returned.query_history[i] =
                       Formatted(history)[n - Len(ret.returned.query_history) + i]
              /\ ret.returned.last_query = context.last_query

\* more calls than get_query_logs shows, the latest one failed, and the log
\* was read after it
C23_Witness ==
    /\ Len(history) > LogWindow
    /\ calls[1].pc = "raised"
    /\ tool.name = "get_query_logs"
    /\ \E i \in DOMAIN history : history[i].query # history[1].query
    /\ ret.returned.last_result = context.last_result

\* the query that a last_result describes, as the log writes a query: the
\* summary of a result holds it so, the error info holds the query and the
\* params apart
DescribedQuery(last_result) ==
    IF "error" \in DOMAIN last_result
    THEN Format(last_result.query, last_result.params)
    ELSE last_result.query

\* C24: when two calls of Database.query with one DbContext overlap, then
\* once both have completed last_result describes the query that last_query
\* names: the log does not pair the text of one query with the result of
\* another.
C24_OverlapKeepsPair ==
    (/\ \E i \in DOMAIN history : history[i].overlaps
     /\ \A t \in DOMAIN calls : calls[t].pc # "executing") =>
        DescribedQuery(Val(context.last_result)) = Val(context.last_query)

\* C25: db_lifespan yields the context only after connect succeeded;
\* disconnect is invoked once, after the body ended, however the body ended;
\* when connect fails nothing is yielded, disconnect is not invoked and the
\* exception of connect propagates; a close that fails does not replace the
\* exception of the body, nor make a normal end an exceptional one.
C25_LifespanCleanup ==
    /\ lifespan.yielded => lifespan.connected
    /\ lifespan.disconnects <= 1
    /\ lifespan.disconnects > 0 => lifespan.body \in {"returned", "raised"}
    /\ lifespan.close_failed => lifespan.disconnects = 1
    /\ lifespan.pc = "ended" =>
          /\ lifespan.connected =>
                /\ lifespan.disconnects = 1
                /\ lifespan.body = "raised" =>
                      lifespan.propagated = Some("RuntimeError")
                /\ lifespan.body = "returned" => lifespan.propagated = None
          /\ ~lifespan.connected =>
                /\ ~lifespan.yielded
                /\ lifespan.body = "none"
                /\ lifespan.disconnects = 0
                /\ lifespan.propagated = Some("OperationalError")

\* the body served calls and raised, and the close of the cleanup failed
C25_Witness ==
    /\ lifespan.pc = "ended"
    /\ lifespan.body = "raised"
    /\ lifespan.close_failed
    /\ lifespan.disconnects = 1
    /\ history # <<>>

\* C27: the result of the utils calculate_grades_stats carries the nested
\* grade_rates record (a_rate..f_rate) and the nested grade_counts record
\* (a_count..f_count, withdrawn_count, passed_count, failed_count) for every
\* input, empty or malformed or not.
C27_NestedRecordsAlways ==
    UtilsCalled =>
        /\ ~HasRaised(result)
        /\ Has(result, "grade_rates")
        /\ Has(result, "grade_counts")
        /\ DOMAIN result.grade_rates = BandRateNames
        /\ DOMAIN result.grade_counts = CountNames

\* a rate in tenths of a percent lies in [0, 100]
InPercentRange(r) == IsNone(r) \/ (0 <= Val(r) /\ Val(r) <= Percent * RateScale)

\* C28: for every distribution the utils calculate_grades_stats gives
\* a_count + b_count + c_count + d_count + f_count = total_af_students
\* <= total_graded_students <= total_students, and every pass_rate,
\* withdrawal_rate and band rate that is not absent lies in [0, 100].
C28_CountsNestedRatesInRange ==
    (UtilsCalled /\ IsDict(grades)) =>
        /\ Has(result, "grade_counts")
        /\ result.grade_counts.a_count + result.grade_counts.b_count
              + result.grade_counts.c_count + result.grade_counts.d_count
              + result.grade_counts.f_count = result.total_af_students
        /\ result.total_af_students <= result.total_graded_students
        /\ result.total_graded_students <= result.total_students
        /\ InPercentRange(result.pass_rate)
        /\ InPercentRange(result.withdrawal_rate)
        /\ \A f \in BandRateNames : InPercentRange(BandRateOf(result, f))

\* p, in hundredths of a percent, is n / d * 100 rounded to two decimals
IsRoundedShare(p, n, d) ==
    /\ 2 * (p * d - n * Percent * PercentScale) <= d
    /\ 2 * (n * Percent * PercentScale - p * d) <= d

\* C26: get_grade_distribution_percentiles on a course that is found never
\* raises; when the total count of the course is 0 it returns the error
\* "No grade data available"; otherwise cumulative_percentages does not
\* decrease along A+, A, A-, ..., F, W, S, N, P, each entry is the share of
\* the students at or before that grade, and the entry of P is 100 exactly
\* when every student has one of the 17 ordered labels.
C26_CumulativePercentages ==
    (/\ tool.name = "get_grade_distribution_percentiles"
     /\ frame.pc \in {"returned", "raised"}
     /\ HasCourse(db, tool.key)) =>
        LET total_grades == CourseRow(db, tool.key).total_grades
            m == total_grades.items
            total == SumValues(m)
            cumulative == ret.returned.cumulative_percentages
        IN  /\ ~HasRaised(ret)
            /\ IsDict(total_grades) /\ total = 0 =>
                  ret = Return([error |-> "No grade data available"])
            /\ IsDict(total_grades) /\ total > 0 =>
                  /\ \A i, j \in DOMAIN grade_order :
                        i < j => cumulative[i] <= cumulative[j]
                  /\ \A i \in DOMAIN grade_order :
                        IsRoundedShare(cumulative[i], CumulativeSum(m, i), total)
                  /\ cumulative[Len(grade_order)] = Percent * PercentScale
                        <=> CumulativeSum(m, Len(grade_order)) = total

====
